---------------------------- MODULE Spec2Model ----------------------------
(***************************************************************************)
(* A model of the PostgreSQL dump conversion engine of harbourbridge:      *)
(*   - sources/postgres/pgdump.go : chunk assembler, statement dispatcher, *)
(*     schema assembler, constraint resolution, copy-block decoder;        *)
(*   - cmd/eval.go                : the eval command's call order;         *)
(*   - internal (Conv, Reader, AddPrimaryKeys): not part of the sources    *)
(*     at hand, modelled from the specification and the Conv API tests.    *)
(*                                                                         *)
(* The module holds eleven specifications over one set of variables:       *)
(*   SpecSchema : statements applied one at a time to a Conv (schema mode) *)
(*   Spec       : processPgDump over a line-oriented input stream          *)
(*   SpecCopy   : processCopyBlock over the bytes of the lines of a block  *)
(*   SpecEval   : EvalCmd.Execute                                          *)
(*   SpecFinal  : Conv.AddPrimaryKeys                                      *)
(*   SpecBatch  : processPgDump, one statement per chunk, schema pass and  *)
(*                data pass                                                *)
(*   SpecName   : getTableName                                             *)
(*   SpecConv   : the mode, statement-tally and Unexpected calls of Conv   *)
(*   SpecSample : the bad-row sample of Conv                               *)
(*   SpecTwice  : the schema conversion of one dump, run twice             *)
(*   SpecTerm   : processPgDump as in Spec, under weak fairness of its     *)
(*                step                                                     *)
(***************************************************************************)
EXTENDS Integers, Sequences, FiniteSets, TLC

VARIABLES
    conv,       \* the Conv conversion state (a record, see MakeConv)
    pc,         \* control point of the running specification
    last,       \* SpecSchema, SpecBatch: the statement processed last
    prev,       \* the Conv before the statement (SpecSchema), batch (Spec) or line (SpecCopy) processed last; SpecTwice: the Conv of the second run
    nsteps,     \* SpecSchema, SpecBatch: number of statements processed so far
    pkSeen,     \* SpecSchema: primary-key constraints applied to t since its creation
    input,      \* Spec: the dump, [lines, residual] (see Reader)
    pos,        \* Spec: Reader: number of lines read
    eof,        \* Spec: Reader.EOF
    buf,        \* Spec: readAndParseChunk's l, the lines of the current chunk
    stmts,      \* Spec: the statements of the chunk parsed last
    ci,         \* Spec: the copyOrInsert processStatements returned
    err,        \* Spec: processPgDump returned an error
    nParsed,    \* Spec: statements returned by successful chunk parses, summed
    nFailed,    \* Spec: parse attempts that failed
    cmd,        \* SpecEval: the EvalCmd flags skipForeignKeys and filePrefix
    calls,      \* SpecEval, SpecName, SpecConv, SpecSample: the calls made, with their outcomes
    written,    \* SpecEval: data writes dispatched to the target database
    exit        \* SpecEval: the exit status of Execute, "none" while it runs

schemaVars == <<conv, pc, last, prev, nsteps, pkSeen>>

dumpVars == <<input, pos, eof, buf, stmts, ci, err, nParsed, nFailed>>

evalVars == <<cmd, calls, written, exit>>

vars == <<conv, pc, last, prev, nsteps, pkSeen,
          input, pos, eof, buf, stmts, ci, err, nParsed, nFailed,
          cmd, calls, written, exit>>

(***************************************************************************)
(* Bounds of the model.                                                    *)
(***************************************************************************)
MaxStmts == 3

MaxLines == 3

\* SpecEval: the most data writes DataConv dispatches.
MaxWrites == 2

(***************************************************************************)
(* Go maps: a map is a function with a finite domain; reading a missing    *)
(* key yields the zero value, writing a missing key adds it.               *)
(***************************************************************************)
MapGet(m, k, zero) == IF k \in DOMAIN m THEN m[k] ELSE zero

MapSet(m, k, v) == [x \in (DOMAIN m) \cup {k} |-> IF x = k THEN v ELSE m[x]]

EmptyMap == [x \in {} |-> 0]

(***************************************************************************)
(* schema.Column, schema.Table (zero values as Go gives them).             *)
(***************************************************************************)
ZeroColumn == [Name |-> "", NotNull |-> FALSE, IgnoredDefault |-> FALSE]

ZeroTable == [Name |-> "", ColNames |-> <<>>, ColDefs |-> EmptyMap,
              PrimaryKeys |-> <<>>, ForeignKeys |-> <<>>, Indexes |-> <<>>]

ZeroStat == [Schema |-> 0, Data |-> 0, Skip |-> 0, Error |-> 0]

(***************************************************************************)
(* internal.Conv.  MakeConv is the state after construction.               *)
(***************************************************************************)
\* The capacity MakeConv gives the bad-row sample.
SampleCapacity == 2

MakeConv ==
    [mode       |-> "schema",
     SrcSchema  |-> EmptyMap,     \* table name -> schema.Table
     Rows       |-> EmptyMap,     \* Stats.Rows: table name -> count
     BadRows    |-> EmptyMap,     \* Stats.BadRows: table name -> count
     Statement  |-> EmptyMap,     \* Stats.Statement: tag -> ZeroStat-like
     Reparsed   |-> 0,            \* Stats.Reparsed
     Unexpected |-> <<>>,         \* the diagnostics log, in order
     DataRows   |-> <<>>,         \* rows handed to ProcessDataRow, in order
     sampleBadRows |-> [rows |-> <<>>, cap |-> SampleCapacity],
                                  \* the bad-row sample and its capacity
     SpSchema   |-> EmptyMap,     \* table name -> ddl.CreateTable
     SyntheticPKeys |-> EmptyMap, \* table name -> SyntheticPKey
     Location   |-> "Local"]

SchemaMode(c) == c.mode = "schema"

DataMode(c) == c.mode = "data"

SetSchemaMode(c) == [c EXCEPT !.mode = "schema"]

\* Mutant of SetDataMode: the mode is switched to the other one.
SetDataModeToggles(c) == [c EXCEPT !.mode = IF @ = "data" THEN "schema" ELSE "data"]

SetDataMode(c) == [c EXCEPT !.mode = "data"]

\* Mutant of Unexpected: the log holds the latest diagnostic only.
UnexpectedKeepsLatest(c, msg) == [c EXCEPT !.Unexpected = <<msg>>]

Unexpected(c, msg) == [c EXCEPT !.Unexpected = Append(@, msg)]

BumpStat(c, tag, field) ==
    LET s == MapGet(c.Statement, tag, ZeroStat)
    IN  [c EXCEPT !.Statement = MapSet(@, tag, [s EXCEPT ![field] = @ + 1])]

SchemaStatement(c, tag) == BumpStat(c, tag, "Schema")

DataStatement(c, tag) == BumpStat(c, tag, "Data")

SkipStatement(c, tag) == BumpStat(c, tag, "Skip")

\* Mutant of ErrorInStatement: the statement is counted as skipped as well.
ErrorInStatementAlsoSkips(c, tag) == BumpStat(BumpStat(c, tag, "Error"), tag, "Skip")

ErrorInStatement(c, tag) == BumpStat(c, tag, "Error")

StatsAddRow(c, table, b) ==
    [c EXCEPT !.Rows = MapSet(@, table, MapGet(@, table, 0) + 1)]

StatsAddBadRow(c, table, b) ==
    [c EXCEPT !.BadRows = MapSet(@, table, MapGet(@, table, 0) + 1)]

RECURSIVE SumStat(_, _, _)
SumStat(m, tags, field) ==
    IF tags = {} THEN 0
    ELSE LET t == CHOOSE x \in tags : TRUE
         IN  m[t][field] + SumStat(m, tags \ {t}, field)

Skipped(c) == SumStat(c.Statement, DOMAIN c.Statement, "Skip")

StatementErrors(c) == SumStat(c.Statement, DOMAIN c.Statement, "Error")

Statements(c) ==
    SumStat(c.Statement, DOMAIN c.Statement, "Schema")
    + SumStat(c.Statement, DOMAIN c.Statement, "Data")
    + Skipped(c) + StatementErrors(c)

Unexpecteds(c) == Len(c.Unexpected)

logStmtError(c, tag, msg) == ErrorInStatement(Unexpected(c, msg), tag)

(***************************************************************************)
(* Parse-tree nodes.  A node that should be a String node is a record      *)
(* [isString, s]; getString fails on any other node.                       *)
(***************************************************************************)
Str(s) == [isString |-> TRUE, s |-> s]

NotStr == [isString |-> FALSE, s |-> ""]

NoRelation == [nil |-> TRUE, Catalogname |-> "", Schemaname |-> "", Relname |-> ""]

RangeVar(cat, sch, rel) ==
    [nil |-> FALSE, Catalogname |-> cat, Schemaname |-> sch, Relname |-> rel]

\* strings.Join(l, ".")
RECURSIVE JoinDot(_)
JoinDot(l) ==
    IF Len(l) = 0 THEN ""
    ELSE IF Len(l) = 1 THEN l[1]
    ELSE l[1] \o "." \o JoinDot(Tail(l))

\* Mutant of getTableName: the schema named public is kept.
getTableNameKeepsPublic(n) ==
    LET l1 == IF n.Catalogname # "" THEN <<n.Catalogname>> ELSE <<>>
        l2 == IF n.Schemaname # "" THEN Append(l1, n.Schemaname) ELSE l1
    IN  IF n.Relname = ""
        THEN [name |-> "", err |-> TRUE]
        ELSE [name |-> JoinDot(Append(l2, n.Relname)), err |-> FALSE]

getTableName(n) ==
    LET l1 == IF n.Catalogname # "" THEN <<n.Catalogname>> ELSE <<>>
        l2 == IF n.Schemaname # "" /\ n.Schemaname # "public"
              THEN Append(l1, n.Schemaname) ELSE l1
    IN  IF n.Relname = ""
        THEN [name |-> "", err |-> TRUE]
        ELSE [name |-> JoinDot(Append(l2, n.Relname)), err |-> FALSE]


getString(node) ==
    IF node.isString THEN [s |-> node.s, err |-> FALSE] ELSE [s |-> "", err |-> TRUE]

getTypeID(nodes) ==
    LET bad == \E i \in 1..Len(nodes) : getString(nodes[i]).err
        ids == [i \in 1..Len(nodes) |-> nodes[i].s]
        ids2 == IF Len(ids) > 1 /\ ids[1] = "pg_catalog" THEN Tail(ids) ELSE ids
    IN  IF bad THEN [s |-> "", err |-> TRUE] ELSE [s |-> JoinDot(ids2), err |-> FALSE]

(***************************************************************************)
(* Constraint nodes and the transient constraint struct.                   *)
(***************************************************************************)
ConstraintNode(contype, conname, keys, pktable, fkattrs, pkattrs) ==
    [isConstraint |-> TRUE, Contype |-> contype, Conname |-> conname, Keys |-> keys,
     Pktable |-> pktable, FkAttrs |-> fkattrs, PkAttrs |-> pkattrs]

OtherNode == [isConstraint |-> FALSE, Contype |-> "", Conname |-> "", Keys |-> <<>>,
              Pktable |-> NoRelation, FkAttrs |-> <<>>, PkAttrs |-> <<>>]

constraint(ct, cols, name, referCols, referTable) ==
    [ct |-> ct, cols |-> cols, name |-> name, referCols |-> referCols,
     referTable |-> referTable]

\* The loops of extractConstraints over Keys, FkAttrs and PkAttrs: the strings
\* of the String nodes, in order ...
RECURSIVE collectStrings(_)
collectStrings(nodes) ==
    IF nodes = <<>> THEN <<>>
    ELSE IF getString(Head(nodes)).err THEN collectStrings(Tail(nodes))
    ELSE <<getString(Head(nodes)).s>> \o collectStrings(Tail(nodes))

\* ... and a node that is no String node is logged and counted as a statement
\* error.
RECURSIVE logNonStrings(_, _, _)
logNonStrings(c, nodes, tag) ==
    IF nodes = <<>> THEN c
    ELSE logNonStrings(
             IF getString(Head(nodes)).err
             THEN ErrorInStatement(Unexpected(c, "error processing constraints"), tag)
             ELSE c,
             Tail(nodes), tag)

\* cs = append(cs, k), r being what the rest of the loop yields.
prependConstraint(k, r) == [conv |-> r.conv, cs |-> <<k>> \o r.cs]

RECURSIVE extractConstraints(_, _, _, _)
extractConstraints(c, stmtType, table, l) ==
    IF l = <<>> THEN [conv |-> c, cs |-> <<>>]
    ELSE
      LET d == Head(l) IN
      IF ~d.isConstraint
      THEN extractConstraints(
               Unexpected(c, "found node while processing constraints"),
               stmtType, table, Tail(l))
      ELSE IF d.Contype = "FOREIGN"
      THEN IF getTableName(d.Pktable).err
           THEN extractConstraints(
                    ErrorInStatement(
                        Unexpected(c, "error processing constraints"), "Constraint"),
                    stmtType, table, Tail(l))
           ELSE prependConstraint(
                    constraint(d.Contype, collectStrings(d.FkAttrs), d.Conname,
                               collectStrings(d.PkAttrs), getTableName(d.Pktable).name),
                    extractConstraints(
                        logNonStrings(logNonStrings(c, d.FkAttrs, "Constraint"),
                                      d.PkAttrs, "Constraint"),
                        stmtType, table, Tail(l)))
      ELSE prependConstraint(
               constraint(d.Contype, collectStrings(d.Keys), d.Conname, <<>>, ""),
               extractConstraints(logNonStrings(c, d.Keys, "Node.Constraint"),
                                  stmtType, table, Tail(l)))

\* Mutant of setColsOf: the constraints keep the keys they were extracted with.
RECURSIVE setColsOfKeepsKeys(_, _, _)
setColsOfKeepsKeys(c, cs, pgCol) ==
    IF cs = <<>> THEN [conv |-> c, cs |-> <<>>]
    ELSE prependConstraint(
             Head(cs),
             setColsOfKeepsKeys(IF Len(Head(cs).cols) # 0
                                THEN Unexpected(c, "ColumnDef constraint has keys") ELSE c,
                                Tail(cs), pgCol))

\* The loop of analyzeColDefConstraints over the constraints e.cs extracted.
RECURSIVE setColsOf(_, _, _)
setColsOf(c, cs, pgCol) ==
    IF cs = <<>> THEN [conv |-> c, cs |-> <<>>]
    ELSE prependConstraint(
             [Head(cs) EXCEPT !.cols = <<pgCol>>],
             setColsOf(IF Len(Head(cs).cols) # 0
                       THEN Unexpected(c, "ColumnDef constraint has keys") ELSE c,
                       Tail(cs), pgCol))

setCols(e, pgCol) == setColsOf(e.conv, e.cs, pgCol)

analyzeColDefConstraints(c, stmtType, table, l, pgCol) ==
    setCols(extractConstraints(c, stmtType, table, l), pgCol)

(***************************************************************************)
(* Constraint resolution.                                                  *)
(***************************************************************************)
\* Mutant of updateCols: the cases of the switch are swapped.
RECURSIVE updateColsSwapped(_, _, _)
updateColsSwapped(ct, colNames, colDef) ==
    IF colNames = <<>> THEN colDef
    ELSE LET n == Head(colNames)
             cd == MapGet(colDef, n, ZeroColumn)
             cd2 == IF ct = "DEFAULT" THEN [cd EXCEPT !.NotNull = TRUE]
                    ELSE IF ct = "NOTNULL" THEN [cd EXCEPT !.IgnoredDefault = TRUE]
                    ELSE cd
         IN  updateColsSwapped(ct, Tail(colNames), MapSet(colDef, n, cd2))

RECURSIVE updateCols(_, _, _)
updateCols(ct, colNames, colDef) ==
    IF colNames = <<>> THEN colDef
    ELSE LET n == Head(colNames)
             cd == MapGet(colDef, n, ZeroColumn)
             cd2 == IF ct = "NOTNULL" THEN [cd EXCEPT !.NotNull = TRUE]
                    ELSE IF ct = "DEFAULT" THEN [cd EXCEPT !.IgnoredDefault = TRUE]
                    ELSE cd
         IN  updateCols(ct, Tail(colNames), MapSet(colDef, n, cd2))

toSchemaKeys(s) == [i \in 1..Len(s) |-> [Column |-> s[i], Desc |-> FALSE]]

toForeignKeys(fk) ==
    [Name |-> fk.name, Columns |-> fk.cols, ReferTable |-> fk.referTable,
     ReferColumns |-> fk.referCols]

checkEmpty(c, pkeys, stmtType) ==
    IF Len(pkeys) # 0
    THEN Unexpected(c, stmtType \o " statement is adding a second primary key")
    ELSE c

\* Mutant of updateSchemaOne: a primary key does not force not-null.
updateSchemaOneKeepsNullable(c, table, k, stmtType) ==
    LET ct == MapGet(c.SrcSchema, table, ZeroTable) IN
    IF k.ct = "PRIMARY"
    THEN LET c1 == checkEmpty(c, ct.PrimaryKeys, stmtType)
             ct2 == [ct EXCEPT !.PrimaryKeys = toSchemaKeys(k.cols)]
         IN  [c1 EXCEPT !.SrcSchema = MapSet(@, table, ct2)]
    ELSE IF k.ct = "FOREIGN"
    THEN [c EXCEPT !.SrcSchema =
            MapSet(@, table, [ct EXCEPT !.ForeignKeys = Append(@, toForeignKeys(k))])]
    ELSE IF k.ct = "UNIQUE"
    THEN [c EXCEPT !.SrcSchema =
            MapSet(@, table,
                   [ct EXCEPT !.Indexes =
                       Append(@, [Name |-> k.name, Unique |-> TRUE,
                                  Keys |-> toSchemaKeys(k.cols)])])]
    ELSE [c EXCEPT !.SrcSchema =
            MapSet(@, table, [ct EXCEPT !.ColDefs = updateCols(k.ct, k.cols, @)])]

\* Mutant of updateSchemaOne: a foreign key takes the place of those before it.
updateSchemaOneReplacesForeignKeys(c, table, k, stmtType) ==
    LET ct == MapGet(c.SrcSchema, table, ZeroTable) IN
    IF k.ct = "PRIMARY"
    THEN LET c1 == checkEmpty(c, ct.PrimaryKeys, stmtType)
             ct2 == [ct EXCEPT !.PrimaryKeys = toSchemaKeys(k.cols),
                               !.ColDefs = updateCols("NOTNULL", k.cols, @)]
         IN  [c1 EXCEPT !.SrcSchema = MapSet(@, table, ct2)]
    ELSE IF k.ct = "FOREIGN"
    THEN [c EXCEPT !.SrcSchema =
            MapSet(@, table, [ct EXCEPT !.ForeignKeys = <<toForeignKeys(k)>>])]
    ELSE IF k.ct = "UNIQUE"
    THEN [c EXCEPT !.SrcSchema =
            MapSet(@, table,
                   [ct EXCEPT !.Indexes =
                       Append(@, [Name |-> k.name, Unique |-> TRUE,
                                  Keys |-> toSchemaKeys(k.cols)])])]
    ELSE [c EXCEPT !.SrcSchema =
            MapSet(@, table, [ct EXCEPT !.ColDefs = updateCols(k.ct, k.cols, @)])]

\* One iteration of the loop of updateSchema: constraint k applied to table.
updateSchemaOne(c, table, k, stmtType) ==
    LET ct == MapGet(c.SrcSchema, table, ZeroTable) IN
    IF k.ct = "PRIMARY"
    THEN LET c1 == checkEmpty(c, ct.PrimaryKeys, stmtType)
             ct2 == [ct EXCEPT !.PrimaryKeys = toSchemaKeys(k.cols),
                               !.ColDefs = updateCols("NOTNULL", k.cols, @)]
         IN  [c1 EXCEPT !.SrcSchema = MapSet(@, table, ct2)]
    ELSE IF k.ct = "FOREIGN"
    THEN [c EXCEPT !.SrcSchema =
            MapSet(@, table, [ct EXCEPT !.ForeignKeys = Append(@, toForeignKeys(k))])]
    ELSE IF k.ct = "UNIQUE"
    THEN [c EXCEPT !.SrcSchema =
            MapSet(@, table,
                   [ct EXCEPT !.Indexes =
                       Append(@, [Name |-> k.name, Unique |-> TRUE,
                                  Keys |-> toSchemaKeys(k.cols)])])]
    ELSE [c EXCEPT !.SrcSchema =
            MapSet(@, table, [ct EXCEPT !.ColDefs = updateCols(k.ct, k.cols, @)])]

RECURSIVE updateSchema(_, _, _, _)
updateSchema(c, table, cs, stmtType) ==
    IF cs = <<>> THEN c
    ELSE updateSchema(updateSchemaOne(c, table, Head(cs), stmtType),
                      table, Tail(cs), stmtType)

(***************************************************************************)
(* Statements (the parse tree as far as pgdump.go reads it).  Every        *)
(* statement is a record of one shape; a field a kind does not use is      *)
(* empty.                                                                  *)
(*   kind         printNodeType of the statement                           *)
(*   Relation     RangeVar or NoRelation                                   *)
(*   InhRelations number of inherited relations (CreateStmt)               *)
(*   TableElts    CreateStmt: column definitions and constraints           *)
(*   Cmds         AlterTableStmt: sub-commands                             *)
(*   Idxname, Unique, IndexParams   IndexStmt                              *)
(*   Cols, Rows, selOk              InsertStmt                             *)
(*   Attlist                        CopyStmt                               *)
(*   Name, Args                     VariableSetStmt                        *)
(***************************************************************************)
Stmt(kind, rel) ==
    [kind |-> kind, Relation |-> rel, InhRelations |-> 0, TableElts |-> <<>>,
     Cmds |-> <<>>, Idxname |-> "", Unique |-> FALSE, IndexParams |-> <<>>,
     Cols |-> <<>>, Rows |-> <<>>, selOk |-> TRUE, Attlist |-> <<>>,
     Name |-> "", Args |-> <<>>]

NoStmt == Stmt("", NoRelation)

\* Table elements of a CreateStmt.
ColumnDef(colname, typeNames, constraints) ==
    [elt |-> "ColumnDef", Colname |-> colname, TypeNames |-> typeNames,
     Constraints |-> constraints, con |-> OtherNode]

ConstraintElt(con) ==
    [elt |-> "Constraint", Colname |-> "", TypeNames |-> <<>>,
     Constraints |-> <<>>, con |-> con]

OtherElt ==
    [elt |-> "Other", Colname |-> "", TypeNames |-> <<>>,
     Constraints |-> <<>>, con |-> OtherNode]

\* Sub-commands of an AlterTableStmt: isCmd is FALSE for a node that is no
\* AlterTableCmd; Def is "nil", "Constraint" (with con) or "Other".
AlterTableCmd(subtype, name, def, con) ==
    [isCmd |-> TRUE, Subtype |-> subtype, Name |-> name, Def |-> def, con |-> con]

NotACmd == [isCmd |-> FALSE, Subtype |-> "", Name |-> "", Def |-> "nil", con |-> OtherNode]

\* What processColumn returns for column n, a being its constraints.
columnOf(n, a) ==
    [conv |-> a.conv, err |-> FALSE, name |-> n.Colname,
     col |-> [ZeroColumn EXCEPT !.Name = n.Colname], cs |-> a.cs]

processColumn(c, n, table) ==
    IF n.Colname = "" \/ getTypeID(n.TypeNames).err
    THEN [conv |-> c, err |-> TRUE, name |-> "", col |-> ZeroColumn, cs |-> <<>>]
    ELSE columnOf(n, analyzeColDefConstraints(c, "ColumnDef", table,
                                              n.Constraints, n.Colname))

\* The loop of processCreateStmt over n.TableElts; acc holds colNames, colDef
\* and the constraints collected so far.
RECURSIVE createElts(_, _, _, _)

\* case ColumnDef, r being what processColumn returned.
createEltsColumn(elts, table, acc, r) ==
    IF r.err
    THEN [conv |-> logStmtError(r.conv, "CreateStmt", "column error"),
          err |-> TRUE, acc |-> acc]
    ELSE createElts(r.conv, Tail(elts), table,
                    [colNames |-> Append(acc.colNames, r.name),
                     colDef |-> MapSet(acc.colDef, r.name, r.col),
                     constraints |-> acc.constraints \o r.cs])

\* case Constraint, e being what extractConstraints returned.
createEltsConstraint(elts, table, acc, e) ==
    createElts(e.conv, Tail(elts), table, [acc EXCEPT !.constraints = @ \o e.cs])

createElts(c, elts, table, acc) ==
    IF elts = <<>> THEN [conv |-> c, err |-> FALSE, acc |-> acc]
    ELSE IF Head(elts).elt = "ColumnDef"
    THEN createEltsColumn(elts, table, acc, processColumn(c, Head(elts), table))
    ELSE IF Head(elts).elt = "Constraint"
    THEN createEltsConstraint(elts, table, acc,
             extractConstraints(c, "CreateStmt", table, <<Head(elts).con>>))
    ELSE createElts(Unexpected(c, "Found node while processing CreateStmt TableElts"),
                    Tail(elts), table, acc)

\* Mutant of createTable: the columns read before the failing one are stored.
createTableStoresPartial(table, r) ==
    updateSchema(
        [(IF r.err THEN r.conv ELSE SchemaStatement(r.conv, "CreateStmt"))
            EXCEPT !.SrcSchema =
                MapSet(@, table,
                       [ZeroTable EXCEPT !.Name = table,
                                         !.ColNames = r.acc.colNames,
                                         !.ColDefs = r.acc.colDef])],
        table, r.acc.constraints, "CREATE TABLE")

\* The end of processCreateStmt, r being what the loop over n.TableElts yields.
createTable(table, r) ==
    IF r.err THEN r.conv
    ELSE updateSchema(
             [SchemaStatement(r.conv, "CreateStmt") EXCEPT !.SrcSchema =
                 MapSet(@, table,
                        [ZeroTable EXCEPT !.Name = table,
                                          !.ColNames = r.acc.colNames,
                                          !.ColDefs = r.acc.colDef])],
             table, r.acc.constraints, "CREATE TABLE")

\* Mutant of processCreateStmt: a table that inherits is stored like any other.
processCreateStmtStoresInherited(c, n) ==
    IF n.Relation.nil THEN logStmtError(c, "CreateStmt", "relation is nil")
    ELSE IF getTableName(n.Relation).err
    THEN logStmtError(c, "CreateStmt", "can't get table name")
    ELSE createTable(getTableName(n.Relation).name,
                     createElts(c, n.TableElts, getTableName(n.Relation).name,
                                [colNames |-> <<>>, colDef |-> EmptyMap,
                                 constraints |-> <<>>]))

processCreateStmt(c, n) ==
    IF n.Relation.nil THEN logStmtError(c, "CreateStmt", "relation is nil")
    ELSE IF getTableName(n.Relation).err
    THEN logStmtError(c, "CreateStmt", "can't get table name")
    ELSE IF n.InhRelations > 0
    THEN Unexpected(SkipStatement(c, "CreateStmt"), "Found inherited table")
    ELSE createTable(getTableName(n.Relation).name,
                     createElts(c, n.TableElts, getTableName(n.Relation).name,
                                [colNames |-> <<>>, colDef |-> EmptyMap,
                                 constraints |-> <<>>]))

\* case AT_AddConstraint with a Constraint, e being what extractConstraints
\* returned.
addConstraints(table, e) ==
    SchemaStatement(updateSchema(e.conv, table, e.cs, "ALTER TABLE"),
                    "AlterTableStmt.AlterTableCmd.Constraint")

\* Mutant of alterCmd: DROP COLUMN takes the column out of the table.
alterCmdDropsColumn(c, table, a) ==
    IF ~a.isCmd THEN SkipStatement(c, "AlterTableStmt.Node")
    ELSE IF a.Subtype = "AT_SetNotNull" /\ a.Name # ""
    THEN SchemaStatement(
             updateSchema(c, table,
                          <<constraint("NOTNULL", <<a.Name>>, "", <<>>, "")>>,
                          "ALTER TABLE"),
             "AlterTableStmt.AlterTableCmd")
    ELSE IF a.Subtype = "AT_AddConstraint" /\ a.Def # "nil"
    THEN IF a.Def = "Constraint"
         THEN addConstraints(table,
                  extractConstraints(c, "AlterTableStmt", table, <<a.con>>))
         ELSE SkipStatement(c, "AlterTableStmt.AlterTableCmd.Other")
    ELSE IF a.Subtype = "AT_DropColumn"
    THEN [SchemaStatement(c, "AlterTableStmt.AlterTableCmd") EXCEPT
             !.SrcSchema[table].ColNames = SelectSeq(@, LAMBDA x : x # a.Name)]
    ELSE SkipStatement(c, "AlterTableStmt.AlterTableCmd")

\* One iteration of the loop of processAlterTableStmt over n.Cmds.
alterCmd(c, table, a) ==
    IF ~a.isCmd THEN SkipStatement(c, "AlterTableStmt.Node")
    ELSE IF a.Subtype = "AT_SetNotNull" /\ a.Name # ""
    THEN SchemaStatement(
             updateSchema(c, table,
                          <<constraint("NOTNULL", <<a.Name>>, "", <<>>, "")>>,
                          "ALTER TABLE"),
             "AlterTableStmt.AlterTableCmd")
    ELSE IF a.Subtype = "AT_AddConstraint" /\ a.Def # "nil"
    THEN IF a.Def = "Constraint"
         THEN addConstraints(table,
                  extractConstraints(c, "AlterTableStmt", table, <<a.con>>))
         ELSE SkipStatement(c, "AlterTableStmt.AlterTableCmd.Other")
    ELSE SkipStatement(c, "AlterTableStmt.AlterTableCmd")

\* Mutant of alterCmds: the loop ends after the first sub-command.
alterCmdsFirstOnly(c, table, cmds) ==
    IF cmds = <<>> THEN c ELSE alterCmd(c, table, Head(cmds))

RECURSIVE alterCmds(_, _, _)
alterCmds(c, table, cmds) ==
    IF cmds = <<>> THEN c
    ELSE alterCmds(alterCmd(c, table, Head(cmds)), table, Tail(cmds))

\* Mutant of processAlterTableStmt: the sub-commands are applied whether or not
\* the table is in the source schema.
processAlterTableStmtAppliesToUnknown(c, n) ==
    IF n.Relation.nil THEN logStmtError(c, "AlterTableStmt", "relation is nil")
    ELSE IF getTableName(n.Relation).err
    THEN logStmtError(c, "AlterTableStmt", "can't get table name")
    ELSE alterCmds(c, getTableName(n.Relation).name, n.Cmds)

processAlterTableStmt(c, n) ==
    IF n.Relation.nil THEN logStmtError(c, "AlterTableStmt", "relation is nil")
    ELSE
      LET t == getTableName(n.Relation) IN
      IF t.err THEN logStmtError(c, "AlterTableStmt", "can't get table name")
      ELSE IF t.name \in DOMAIN c.SrcSchema
      THEN alterCmds(c, t.name, n.Cmds)
      ELSE SkipStatement(c, "AlterTableStmt")

\* IndexParams: a sequence of [isElem, Name, Desc].
RECURSIVE toIndexKeys(_, _)
toIndexKeys(c, s) ==
    IF s = <<>> THEN [conv |-> c, keys |-> <<>>]
    ELSE LET e == Head(s) IN
         IF ~e.isElem
         THEN toIndexKeys(c, Tail(s))
         ELSE IF e.Name = ""
         THEN toIndexKeys(Unexpected(c, "Failed to process index: empty index column name"),
                          Tail(s))
         ELSE LET r == toIndexKeys(c, Tail(s))
              IN  [conv |-> r.conv,
                   keys |-> <<[Column |-> e.Name, Desc |-> e.Desc]>> \o r.keys]

\* Mutant of processIndexStmt: the index is put in front of the table's list.
processIndexStmtPrepends(c, n) ==
    IF n.Relation.nil
    THEN logStmtError(c, "IndexStmt", "cannot process index statement with nil relation")
    ELSE IF getTableName(n.Relation).err
    THEN logStmtError(c, "IndexStmt", "can't get table name")
    ELSE IF getTableName(n.Relation).name \in DOMAIN c.SrcSchema
    THEN [toIndexKeys(c, n.IndexParams).conv EXCEPT
             !.SrcSchema[getTableName(n.Relation).name].Indexes =
                 <<[Name |-> n.Idxname, Unique |-> n.Unique,
                    Keys |-> toIndexKeys(c, n.IndexParams).keys]>> \o @]
    ELSE SkipStatement(Unexpected(c, "Table not found while processing index statement"),
                       "IndexStmt")

processIndexStmt(c, n) ==
    IF n.Relation.nil
    THEN logStmtError(c, "IndexStmt", "cannot process index statement with nil relation")
    ELSE
      LET t == getTableName(n.Relation) IN
      IF t.err THEN logStmtError(c, "IndexStmt", "can't get table name")
      ELSE IF t.name \in DOMAIN c.SrcSchema
      THEN LET k == toIndexKeys(c, n.IndexParams)
               ct == k.conv.SrcSchema[t.name]
           IN  [k.conv EXCEPT !.SrcSchema =
                   MapSet(@, t.name,
                          [ct EXCEPT !.Indexes =
                              Append(@, [Name |-> n.Idxname, Unique |-> n.Unique,
                                         Keys |-> k.keys])])]
      ELSE SkipStatement(Unexpected(c, "Table not found while processing index statement"),
                         "IndexStmt")

(***************************************************************************)
(* Insert, copy and session-variable statements.  copyOrInsert is a record *)
(* [nil, stmt, table, cols, rows]; NoCi is the nil pointer.                *)
(***************************************************************************)
NoCi == [nil |-> TRUE, stmt |-> "", table |-> "", cols |-> <<>>, rows |-> <<>>]

copyOrInsert(stmt, table, cols, rows) ==
    [nil |-> FALSE, stmt |-> stmt, table |-> table, cols |-> cols, rows |-> rows]

\* InsertStmt.Cols: a sequence of [isResTarget, Name].
ResTarget(name) == [isResTarget |-> TRUE, Name |-> name]

NotResTarget == [isResTarget |-> FALSE, Name |-> ""]

getCols(nodes) ==
    IF \E i \in 1..Len(nodes) : ~nodes[i].isResTarget
    THEN [cols |-> <<>>, err |-> TRUE]
    ELSE [cols |-> SelectSeq([i \in 1..Len(nodes) |-> nodes[i].Name],
                             LAMBDA x : x # ""),
          err |-> FALSE]

\* Values of a VALUES list: [k, s, i] with k one of "String", "Integer", "Other".
StringVal(s) == [k |-> "String", s |-> s, i |-> 0]

IntegerVal(i) == [k |-> "Integer", s |-> "", i |-> i]

OtherVal == [k |-> "Other", s |-> "", i |-> 0]

RECURSIVE getRowValues(_, _)
getRowValues(c, items) ==
    IF items = <<>> THEN [conv |-> c, values |-> <<>>]
    ELSE LET v == Head(items) IN
         IF v.k = "String"
         THEN LET r == getRowValues(c, Tail(items))
              IN  [conv |-> r.conv, values |-> <<v.s>> \o r.values]
         ELSE IF v.k = "Integer"
         THEN LET r == getRowValues(c, Tail(items))
              IN  [conv |-> r.conv, values |-> <<ToString(v.i)>> \o r.values]
         ELSE getRowValues(Unexpected(c, "found node for A_Const Val"), Tail(items))

RECURSIVE getRows(_, _)
getRows(c, vll) ==
    IF vll = <<>> THEN [conv |-> c, rows |-> <<>>]
    ELSE LET v == getRowValues(c, Head(vll))
             r == getRows(v.conv, Tail(vll))
         IN  [conv |-> r.conv, rows |-> <<v.values>> \o r.rows]

processInsertStmt(c, n) ==
    IF n.Relation.nil
    THEN [conv |-> logStmtError(c, "InsertStmt", "relation is nil"), ci |-> NoCi]
    ELSE
      LET t == getTableName(n.Relation) IN
      IF t.err
      THEN [conv |-> logStmtError(c, "InsertStmt", "can't get table name"), ci |-> NoCi]
      ELSE IF t.name \notin DOMAIN c.SrcSchema
      THEN [conv |-> SkipStatement(c, "InsertStmt"), ci |-> NoCi]
      ELSE
        LET c1 == StatsAddRow(c, t.name, SchemaMode(c))
            g == getCols(n.Cols)
        IN  IF g.err
            THEN [conv |-> StatsAddBadRow(
                               logStmtError(c1, "InsertStmt", "can't get col name"),
                               t.name, SchemaMode(c1)),
                  ci |-> NoCi]
            ELSE IF n.selOk
            THEN LET r == getRows(c1, n.Rows)
                     c2 == DataStatement(r.conv, "SelectStmt")
                 IN  IF DataMode(c2)
                     THEN [conv |-> c2,
                           ci |-> copyOrInsert("insert", t.name, g.cols, r.rows)]
                     ELSE [conv |-> c2, ci |-> NoCi]
            ELSE [conv |-> Unexpected(c1, "Found node while processing InsertStmt SelectStmt"),
                  ci |-> NoCi]

\* The loop of processCopyStmt over n.Attlist.
RECURSIVE copyCols(_, _)
copyCols(c, attlist) ==
    IF attlist = <<>> THEN [conv |-> c, cols |-> <<>>]
    ELSE LET g == getString(Head(attlist))
             c1 == IF g.err THEN Unexpected(c, "Processing CopyStmt statement Attlist") ELSE c
             r == copyCols(c1, Tail(attlist))
         IN  [conv |-> r.conv,
              cols |-> <<IF g.err THEN "BOGUS_COPY_FROM_COLUMN" ELSE g.s>> \o r.cols]

\* Mutant of processCopyStmt: nothing is returned for a table that is not in
\* the source schema.
processCopyStmtDropsUnknown(c, n) ==
    LET t == IF n.Relation.nil THEN [name |-> "BOGUS_COPY_FROM_TABLE", err |-> FALSE]
             ELSE getTableName(n.Relation)
        c1 == IF n.Relation.nil THEN logStmtError(c, "CopyStmt", "relation is nil")
              ELSE IF t.err THEN Unexpected(c, "Processing CopyStmt statement") ELSE c
    IN  IF t.name \notin DOMAIN c1.SrcSchema
        THEN [conv |-> SkipStatement(c1, "CopyStmt"), ci |-> NoCi]
        ELSE LET a == copyCols(c1, n.Attlist)
             IN  [conv |-> DataStatement(a.conv, "CopyStmt"),
                  ci |-> copyOrInsert("copyFrom", t.name, a.cols, <<>>)]

processCopyStmt(c, n) ==
    LET t == IF n.Relation.nil THEN [name |-> "BOGUS_COPY_FROM_TABLE", err |-> FALSE]
             ELSE getTableName(n.Relation)
        c1 == IF n.Relation.nil THEN logStmtError(c, "CopyStmt", "relation is nil")
              ELSE IF t.err THEN Unexpected(c, "Processing CopyStmt statement") ELSE c
    IN  IF t.name \notin DOMAIN c1.SrcSchema
        THEN [conv |-> SkipStatement(c1, "CopyStmt"),
              ci |-> copyOrInsert("copyFrom", t.name, <<>>, <<>>)]
        ELSE LET a == copyCols(c1, n.Attlist)
             IN  [conv |-> DataStatement(a.conv, "CopyStmt"),
                  ci |-> copyOrInsert("copyFrom", t.name, a.cols, <<>>)]

\* time.LoadLocation succeeds on the names of the zone database.
KnownLocations == {"UTC", "America/New_York"}

\* VariableSetStmt.Args: a sequence of [isAConst, Val].
AConst(val) == [isAConst |-> TRUE, Val |-> val]

NotAConst == [isAConst |-> FALSE, Val |-> NotStr]

processVariableSetStmt(c, n) ==
    IF n.Name = "timezone" /\ Len(n.Args) = 1
    THEN LET arg == n.Args[1] IN
         IF arg.isAConst
         THEN LET tz == getString(arg.Val) IN
              IF tz.err THEN logStmtError(c, "AConst", "can't get Arg")
              ELSE IF tz.s \notin KnownLocations
              THEN logStmtError(c, "AConst", "unknown time zone")
              ELSE [c EXCEPT !.Location = tz.s]
         ELSE logStmtError(c, "Node", "found node in Arg")
    ELSE c

(***************************************************************************)
(* The statement dispatcher.  i is the index of the statement in the batch *)
(* rawStmts; the result is [conv, ci].                                     *)
(***************************************************************************)
\* Mutant of processStatementsFrom: alter-table statements are applied in
\* either mode.
RECURSIVE processStatementsFromAltersAnyMode(_, _, _)
processStatementsFromAltersAnyMode(c, rawStmts, i) ==
    IF i > Len(rawStmts) THEN [conv |-> c, ci |-> NoCi]
    ELSE
      LET n == rawStmts[i] IN
      IF n.kind = "AlterTableStmt"
      THEN processStatementsFromAltersAnyMode(
               processAlterTableStmt(c, n), rawStmts, i + 1)
      ELSE IF n.kind = "CopyStmt"
      THEN LET c1 == IF i # Len(rawStmts)
                     THEN ErrorInStatement(
                              Unexpected(c, "CopyFrom is not the last statement in batch: ignoring following statements"),
                              "CopyStmt")
                     ELSE c
           IN  processCopyStmt(c1, n)
      ELSE IF n.kind = "CreateStmt"
      THEN processStatementsFromAltersAnyMode(
               IF SchemaMode(c) THEN processCreateStmt(c, n) ELSE c, rawStmts, i + 1)
      ELSE IF n.kind = "InsertStmt"
      THEN processInsertStmt(c, n)
      ELSE IF n.kind = "VariableSetStmt"
      THEN processStatementsFromAltersAnyMode(
               IF SchemaMode(c) THEN processVariableSetStmt(c, n) ELSE c, rawStmts, i + 1)
      ELSE IF n.kind = "IndexStmt"
      THEN processStatementsFromAltersAnyMode(
               IF SchemaMode(c) THEN processIndexStmt(c, n) ELSE c, rawStmts, i + 1)
      ELSE processStatementsFromAltersAnyMode(SkipStatement(c, n.kind), rawStmts, i + 1)

RECURSIVE processStatementsFrom(_, _, _)
processStatementsFrom(c, rawStmts, i) ==
    IF i > Len(rawStmts) THEN [conv |-> c, ci |-> NoCi]
    ELSE
      LET n == rawStmts[i] IN
      IF n.kind = "AlterTableStmt"
      THEN processStatementsFrom(
               IF SchemaMode(c) THEN processAlterTableStmt(c, n) ELSE c, rawStmts, i + 1)
      ELSE IF n.kind = "CopyStmt"
      THEN LET c1 == IF i # Len(rawStmts)
                     THEN ErrorInStatement(
                              Unexpected(c, "CopyFrom is not the last statement in batch: ignoring following statements"),
                              "CopyStmt")
                     ELSE c
           IN  processCopyStmt(c1, n)
      ELSE IF n.kind = "CreateStmt"
      THEN processStatementsFrom(
               IF SchemaMode(c) THEN processCreateStmt(c, n) ELSE c, rawStmts, i + 1)
      ELSE IF n.kind = "InsertStmt"
      THEN processInsertStmt(c, n)
      ELSE IF n.kind = "VariableSetStmt"
      THEN processStatementsFrom(
               IF SchemaMode(c) THEN processVariableSetStmt(c, n) ELSE c, rawStmts, i + 1)
      ELSE IF n.kind = "IndexStmt"
      THEN processStatementsFrom(
               IF SchemaMode(c) THEN processIndexStmt(c, n) ELSE c, rawStmts, i + 1)
      ELSE processStatementsFrom(SkipStatement(c, n.kind), rawStmts, i + 1)

processStatements(c, rawStmts) == processStatementsFrom(c, rawStmts, 1)

(***************************************************************************)
(* The Data Row Converter, at its boundary: a row whose value count        *)
(* differs from its column count, or one of whose values does not convert, *)
(* is counted as a bad row; anything else goes to the sink.  Every call is *)
(* recorded in DataRows.                                                   *)
(***************************************************************************)
BadValue == "\\N?"

Min(a, b) == IF a < b THEN a ELSE b

\* Mutant of CollectBadRow: the sample takes every row.
CollectBadRowUnbounded(c, srcTable, srcCols, vals) ==
    [c EXCEPT !.sampleBadRows.rows =
        Append(@, [table |-> srcTable, cols |-> srcCols, vals |-> vals])]

\* The sample accepts rows until it is full and discards the rest.
CollectBadRow(c, srcTable, srcCols, vals) ==
    IF Len(c.sampleBadRows.rows) < c.sampleBadRows.cap
    THEN [c EXCEPT !.sampleBadRows.rows =
             Append(@, [table |-> srcTable, cols |-> srcCols, vals |-> vals])]
    ELSE c

\* The first n rows of the sample, or all of it when it holds fewer.
SampleBadRows(c, n) ==
    SubSeq(c.sampleBadRows.rows, 1, Min(n, Len(c.sampleBadRows.rows)))

IsBadRow(srcCols, vals) ==
    Len(srcCols) # Len(vals) \/ \E i \in 1..Len(vals) : vals[i] = BadValue

ProcessDataRow(c, srcTable, srcCols, vals) ==
    LET c1 == [c EXCEPT !.DataRows =
                  Append(@, [table |-> srcTable, cols |-> srcCols, vals |-> vals])]
    IN  IF IsBadRow(srcCols, vals)
        THEN CollectBadRow(StatsAddBadRow(c1, srcTable, DataMode(c1)),
                           srcTable, srcCols, vals)
        ELSE c1

(***************************************************************************)
(* The variables of a specification that is not running keep these values. *)
(***************************************************************************)
DumpIdle ==
    /\ input = [lines |-> <<>>, residual |-> <<>>]
    /\ pos = 0
    /\ eof = FALSE
    /\ buf = <<>>
    /\ stmts = <<>>
    /\ ci = NoCi
    /\ err = FALSE
    /\ nParsed = 0
    /\ nFailed = 0

EvalIdle ==
    /\ cmd = [skipForeignKeys |-> FALSE, filePrefix |-> ""]
    /\ calls = <<>>
    /\ written = 0
    /\ exit = "none"

(***************************************************************************)
(* SpecSchema: statements reach the dispatcher one per batch, in schema    *)
(* mode.  The statements are drawn from the sets below: one table t with   *)
(* columns a and b, a table u that is never created, a column z that t     *)
(* does not have.                                                          *)
(***************************************************************************)
RelT == RangeVar("", "public", "t")

RelU == RangeVar("", "", "u")

PrimaryKeyCon(keys) == ConstraintNode("PRIMARY", "", keys, NoRelation, <<>>, <<>>)

NotNullCon == ConstraintNode("NOTNULL", "", <<>>, NoRelation, <<>>, <<>>)

ForeignKeyCon ==
    ConstraintNode("FOREIGN", "fk", <<>>, RelU, <<Str("a")>>, <<Str("x")>>)

\* CONSTRAINT fk2 FOREIGN KEY (b, a) REFERENCES s.v (y, x)
ForeignKeyCon2 ==
    ConstraintNode("FOREIGN", "fk2", <<>>, RangeVar("", "s", "v"),
                   <<Str("b"), Str("a")>>, <<Str("y"), Str("x")>>)

UniqueCon == ConstraintNode("UNIQUE", "", <<Str("a")>>, NoRelation, <<>>, <<>>)

\* Constraints as a column definition carries them: CONSTRAINT uq UNIQUE,
\* DEFAULT 0 and REFERENCES u (x).
InlineUnique == ConstraintNode("UNIQUE", "uq", <<>>, NoRelation, <<>>, <<>>)

DefaultCon == ConstraintNode("DEFAULT", "", <<>>, NoRelation, <<>>, <<>>)

InlineForeign == ConstraintNode("FOREIGN", "", <<>>, RelU, <<>>, <<Str("x")>>)

Int8 == <<Str("pg_catalog"), Str("int8")>>

CreateT(aCons, bCons, tableElts) ==
    [Stmt("CreateStmt", RelT) EXCEPT
        !.TableElts = <<ColumnDef("a", Int8, aCons), ColumnDef("b", Int8, bCons)>>
                      \o tableElts]

TablePrimaryKeys == {<<Str("b"), Str("a")>>}

\* CREATE TABLE t (a bigint, b bigint NOT NULL, PRIMARY KEY (b, a)) INHERITS (p)
CreateInherited ==
    [CreateT(<<>>, <<NotNullCon>>, <<ConstraintElt(PrimaryKeyCon(<<Str("b"), Str("a")>>))>>)
        EXCEPT !.InhRelations = 1]

\* Create statements one of whose columns fails in processColumn:
\*   t (a PRIMARY KEY, b NOT NULL, <no name>, PRIMARY KEY (b, a))
\*   t (a PRIMARY KEY, b <type that is no String node> NOT NULL)
\*   t (LIKE p, a <type that is no String node>)
CreateNoColname ==
    [Stmt("CreateStmt", RelT) EXCEPT
        !.TableElts = <<ColumnDef("a", Int8, <<PrimaryKeyCon(<<>>)>>),
                        ColumnDef("b", Int8, <<NotNullCon>>),
                        ColumnDef("", Int8, <<>>),
                        ConstraintElt(PrimaryKeyCon(<<Str("b"), Str("a")>>))>>]

CreateBadType ==
    [Stmt("CreateStmt", RelT) EXCEPT
        !.TableElts = <<ColumnDef("a", Int8, <<PrimaryKeyCon(<<>>)>>),
                        ColumnDef("b", <<NotStr>>, <<NotNullCon>>)>>]

CreateLikeBadType ==
    [Stmt("CreateStmt", RelT) EXCEPT
        !.TableElts = <<OtherElt, ColumnDef("a", <<NotStr>>, <<>>)>>]

CreateFailing == {CreateNoColname, CreateBadType, CreateLikeBadType}

CreateStmts ==
    CreateFailing \cup
    { CreateT(aCons, bCons, elts) :
        aCons \in {<<>>, <<PrimaryKeyCon(<<>>)>>},
        bCons \in {<<>>, <<NotNullCon>>},
        elts \in {<<>>} \cup {<<ConstraintElt(PrimaryKeyCon(k))>> : k \in TablePrimaryKeys} }
    \cup { CreateInherited }
    \cup { CreateT(<<InlineUnique, DefaultCon>>, <<InlineForeign>>, <<>>),
           CreateT(<<DefaultCon, NotNullCon>>, <<PrimaryKeyCon(<<>>), InlineUnique>>, <<>>),
           CreateT(<<InlineForeign>>, <<UniqueCon, DefaultCon>>, <<>>) }

AlterT(rel, cmds) == [Stmt("AlterTableStmt", rel) EXCEPT !.Cmds = cmds]

SetNotNull(col) == AlterTableCmd("AT_SetNotNull", col, "nil", OtherNode)

AddConstraint(con) == AlterTableCmd("AT_AddConstraint", "", "Constraint", con)

DropColumn == AlterTableCmd("AT_DropColumn", "b", "nil", OtherNode)

\* ADD with a definition that is no Constraint node.
AddOtherDef == AlterTableCmd("AT_AddConstraint", "", "Other", OtherNode)

\* PRIMARY KEY (a), PRIMARY KEY (b, a), PRIMARY KEY USING INDEX (which names no
\* column) and PRIMARY KEY (z).
AlterPrimaryKeys == {<<Str("a")>>, <<Str("b"), Str("a")>>, <<>>, <<Str("z")>>}

AlterStmts ==
    { AlterT(RelT, <<SetNotNull(col)>>) : col \in {"a", "b"} }
    \cup { AlterT(RelT, <<AddConstraint(PrimaryKeyCon(k))>>) : k \in AlterPrimaryKeys }
    \cup { AlterT(RelT, <<AddConstraint(con)>>) : con \in {ForeignKeyCon, UniqueCon} }
    \cup { AlterT(RelT, <<DropColumn>>),
           AlterT(RelT, <<DropColumn, SetNotNull("b")>>),
           AlterT(RelU, <<SetNotNull("a")>>),
           AlterT(RelT, <<NotACmd, AddConstraint(UniqueCon), AddOtherDef, SetNotNull("b")>>),
           AlterT(RelT, <<AddConstraint(ForeignKeyCon2), AddConstraint(ForeignKeyCon)>>) }

IndexElem(name, desc) == [isElem |-> TRUE, Name |-> name, Desc |-> desc]

IndexOn(rel) ==
    [Stmt("IndexStmt", rel) EXCEPT !.Idxname = "idx", !.Unique = FALSE,
                                   !.IndexParams = <<IndexElem("a", TRUE)>>]

\* CREATE UNIQUE INDEX uidx ON t (b, a DESC)
UniqueIndexOnT ==
    [Stmt("IndexStmt", RelT) EXCEPT
        !.Idxname = "uidx", !.Unique = TRUE,
        !.IndexParams = <<IndexElem("b", FALSE), IndexElem("a", TRUE)>>]

IndexStmts == {IndexOn(RelT), IndexOn(RelU), UniqueIndexOnT}

\* SET name = args.
SetStmt(name, args) ==
    [Stmt("VariableSetStmt", NoRelation) EXCEPT !.Name = name, !.Args = args]

\* SET timezone = 'UTC', SET timezone = 'Mars/Olympus', SET search_path = 'public'
SetStmts ==
    { SetStmt("timezone", <<AConst(Str("UTC"))>>),
      SetStmt("timezone", <<AConst(Str("Mars/Olympus"))>>),
      SetStmt("search_path", <<AConst(Str("public"))>>) }

\* The primary-key constraints a statement declares, as their key columns in
\* the order of the statement (a column-level constraint names its column).
RECURSIVE EltPrimaryKeys(_)
EltPrimaryKeys(elts) ==
    IF elts = <<>> THEN <<>>
    ELSE LET te == Head(elts)
             here == IF te.elt = "ColumnDef"
                     THEN [i \in 1..Len(SelectSeq(te.Constraints,
                                                  LAMBDA d : d.Contype = "PRIMARY"))
                             |-> <<te.Colname>>]
                     ELSE IF te.elt = "Constraint" /\ te.con.Contype = "PRIMARY"
                     THEN <<[i \in 1..Len(te.con.Keys) |-> te.con.Keys[i].s]>>
                     ELSE <<>>
         IN  here \o EltPrimaryKeys(Tail(elts))

RECURSIVE CmdPrimaryKeys(_)
CmdPrimaryKeys(cmds) ==
    IF cmds = <<>> THEN <<>>
    ELSE LET a == Head(cmds)
             here == IF a.isCmd /\ a.Subtype = "AT_AddConstraint"
                        /\ a.Def = "Constraint" /\ a.con.Contype = "PRIMARY"
                     THEN <<[i \in 1..Len(a.con.Keys) |-> a.con.Keys[i].s]>>
                     ELSE <<>>
         IN  here \o CmdPrimaryKeys(Tail(cmds))

StmtPrimaryKeys(n) ==
    IF n.kind = "CreateStmt" THEN EltPrimaryKeys(n.TableElts)
    ELSE IF n.kind = "AlterTableStmt" THEN CmdPrimaryKeys(n.Cmds)
    ELSE <<>>

SchemaCount(c, tag) == MapGet(c.Statement, tag, ZeroStat).Schema

InitSchema ==
    /\ conv = MakeConv
    /\ pc = "schema"
    /\ last = NoStmt
    /\ prev = MakeConv
    /\ nsteps = 0
    /\ pkSeen = 0
    /\ DumpIdle
    /\ EvalIdle

\* One batch of one statement through processStatements.
Dispatch(n) ==
    /\ pc = "schema"
    /\ nsteps < MaxStmts
    /\ conv' = processStatements(conv, <<n>>).conv
    /\ prev' = conv
    /\ last' = n
    /\ nsteps' = nsteps + 1
    /\ pkSeen' = IF n.kind = "CreateStmt"
                    /\ SchemaCount(conv', "CreateStmt") > SchemaCount(conv, "CreateStmt")
                 THEN Len(StmtPrimaryKeys(n))
                 ELSE IF n.kind = "AlterTableStmt" /\ ~n.Relation.nil
                         /\ getTableName(n.Relation).name \in DOMAIN conv.SrcSchema
                 THEN pkSeen + Len(StmtPrimaryKeys(n))
                 ELSE pkSeen
    /\ pc' = pc
    /\ UNCHANGED dumpVars
    /\ UNCHANGED evalVars

DoCreateStmt == \E n \in CreateStmts : Dispatch(n)

DoAlterTableStmt == \E n \in AlterStmts : Dispatch(n)

DoIndexStmt == \E n \in IndexStmts : Dispatch(n)

DoVariableSetStmt == \E n \in SetStmts : Dispatch(n)

NextSchema == DoCreateStmt \/ DoAlterTableStmt \/ DoIndexStmt \/ DoVariableSetStmt

SpecSchema == InitSchema /\ [][NextSchema]_vars

(***************************************************************************)
(* Spec: processPgDump over an input stream.                               *)
(*                                                                         *)
(* The text of the dump is a sequence of lines, a line a sequence of       *)
(* tokens:                                                                 *)
(*   ";"  the statement terminator                                         *)
(*   "S"  a statement that is complete as it stands and may go on with a   *)
(*        tail (SELECT 2 ... FROM t)                                       *)
(*   "B"  the beginning of a statement that needs a tail (CREATE TABLE t ( *)
(*   "T"  a tail (a bigint PRIMARY KEY, b bigint, PRIMARY KEY (b, a)) )    *)
(*   "C"  COPY t (a, b) FROM stdin                                         *)
(*   "I"  INSERT INTO t (a, b) VALUES (1, 'x'), (2)                        *)
(*   "D"  one field of a copy-block data line (fields are tab-separated)   *)
(*   "M"  the end-of-block marker \.                                       *)
(* input.lines are the lines that end in a line feed; input.residual is    *)
(* what follows the last line feed (empty when the dump ends in one).      *)
(***************************************************************************)
LineSet ==
    { <<"S", ";">>, <<"B">>, <<"T", ";">>, <<"S", ";", "S">>, <<"S", ";", "B">>,
      <<"C", ";">>, <<"D", "D">>, <<"M">>, <<"I", ";">>,
      <<"I", ";", "S", ";", "I", ";">>, <<"K", ";">>, <<"N", ";">> }

ResidualSet == { <<>>, <<"S">>, <<"M">>, <<"D", "D">> }

\* The passes: the schema pass on a fresh Conv, and the data pass with or
\* without table t in the source schema.
Passes == { <<"schema", FALSE>>, <<"data", TRUE>>, <<"data", FALSE>> }

RECURSIVE Flatten(_)
Flatten(ls) == IF ls = <<>> THEN <<>> ELSE Head(ls) \o Flatten(Tail(ls))

\* strings.Contains(string(b), ";")
ContainsSemicolon(b) == \E i \in 1..Len(b) : b[i] = ";"

CreateTDump ==
    CreateT(<<PrimaryKeyCon(<<>>)>>, <<>>,
            <<ConstraintElt(PrimaryKeyCon(<<Str("b"), Str("a")>>))>>)

CopyT ==
    [Stmt("CopyStmt", RelT) EXCEPT !.Attlist = <<Str("a"), Str("b")>>]

InsertT ==
    [Stmt("InsertStmt", RelT) EXCEPT
        !.Cols = <<ResTarget("a"), ResTarget("b")>>,
        !.Rows = << <<IntegerVal(1), StringVal("x")>>, <<IntegerVal(2)>> >>]

\* The statements of the grammar, by their tokens.
Segments == { <<"S">>, <<"S", "T">>, <<"B", "T">>, <<"C">>, <<"I">>, <<"K">>, <<"N">> }

\* COPY t (a, <no name>) FROM stdin: an entry of the column list is no String
\* node.
CopyMalformed ==
    [Stmt("CopyStmt", RelT) EXCEPT !.Attlist = <<Str("a"), NotStr>>]

\* A copy statement without relation.
CopyNoRelation == Stmt("CopyStmt", NoRelation)

StmtOf(seg) ==
    IF seg = <<"B", "T">> THEN CreateTDump
    ELSE IF seg = <<"C">> THEN CopyT
    ELSE IF seg = <<"K">> THEN CopyMalformed
    ELSE IF seg = <<"N">> THEN CopyNoRelation
    ELSE IF seg = <<"I">> THEN InsertT
    ELSE Stmt("SelectStmt", NoRelation)

\* pg_query.Parse: the text is a list of statements separated by terminators;
\* empty statements are dropped and the last statement needs no terminator.
\* cur is the statement being read, acc the statements read so far.
RECURSIVE ParseFrom(_, _, _)
ParseFrom(toks, cur, acc) ==
    IF toks = <<>>
    THEN IF cur = <<>> THEN [ok |-> TRUE, stmts |-> acc]
         ELSE IF cur \in Segments THEN [ok |-> TRUE, stmts |-> Append(acc, StmtOf(cur))]
         ELSE [ok |-> FALSE, stmts |-> <<>>]
    ELSE IF Head(toks) = ";"
    THEN IF cur = <<>> THEN ParseFrom(Tail(toks), <<>>, acc)
         ELSE IF cur \in Segments
         THEN ParseFrom(Tail(toks), <<>>, Append(acc, StmtOf(cur)))
         ELSE [ok |-> FALSE, stmts |-> <<>>]
    ELSE ParseFrom(Tail(toks), Append(cur, Head(toks)), acc)

Parse(toks) == ParseFrom(toks, <<>>, <<>>)

\* Reader.ReadLine: the next line and the EOF flag after the read.  EOF is set
\* by the read that finds no line feed.
ReadLine(in, p) ==
    IF p < Len(in.lines)
    THEN [b |-> in.lines[p + 1], eof |-> FALSE, isLine |-> TRUE]
    ELSE [b |-> in.residual, eof |-> TRUE, isLine |-> FALSE]

\* Mutants of readAndParseChunk: one returns the error on any failed attempt,
\* one counts a reparse only at end-of-stream.
readAndParseChunkFailFast(c, l, b, rEOF) ==
    LET l2 == Append(l, b)
        try == ContainsSemicolon(b) \/ rEOF
        tree == Parse(Flatten(l2))
        c1 == IF try /\ ~tree.ok THEN [c EXCEPT !.Reparsed = @ + 1] ELSE c
    IN  IF try /\ tree.ok
        THEN [conv |-> c, l |-> l2, ret |-> "ok", stmts |-> tree.stmts]
        ELSE IF rEOF \/ try
        THEN [conv |-> c1, l |-> l2, ret |-> "error", stmts |-> <<>>]
        ELSE [conv |-> c1, l |-> l2, ret |-> "continue", stmts |-> <<>>]

readAndParseChunkCountAtEOF(c, l, b, rEOF) ==
    LET l2 == Append(l, b)
        try == ContainsSemicolon(b) \/ rEOF
        tree == Parse(Flatten(l2))
        c1 == IF rEOF /\ ~tree.ok THEN [c EXCEPT !.Reparsed = @ + 1] ELSE c
    IN  IF try /\ tree.ok
        THEN [conv |-> c, l |-> l2, ret |-> "ok", stmts |-> tree.stmts]
        ELSE IF rEOF
        THEN [conv |-> c1, l |-> l2, ret |-> "error", stmts |-> <<>>]
        ELSE [conv |-> c1, l |-> l2, ret |-> "continue", stmts |-> <<>>]

\* Mutant of readAndParseChunk: a parse that fails at end-of-stream is retried.
readAndParseChunkRetriesAtEOF(c, l, b, rEOF) ==
    LET l2 == Append(l, b)
        try == ContainsSemicolon(b) \/ rEOF
        tree == Parse(Flatten(l2))
        c1 == IF try /\ ~tree.ok THEN [c EXCEPT !.Reparsed = @ + 1] ELSE c
    IN  IF try /\ tree.ok
        THEN [conv |-> c, l |-> l2, ret |-> "ok", stmts |-> tree.stmts]
        ELSE [conv |-> c1, l |-> l2, ret |-> "continue", stmts |-> <<>>]

\* One iteration of the loop of readAndParseChunk, after b := r.ReadLine():
\* l is the list of lines read before, rEOF the reader's flag after the read.
\* ret is "ok" (return s, tree.Stmts, nil), "error" (return the parse error) or
\* "continue".
readAndParseChunk(c, l, b, rEOF) ==
    LET l2 == Append(l, b)
        try == ContainsSemicolon(b) \/ rEOF
        tree == Parse(Flatten(l2))
        c1 == IF try /\ ~tree.ok THEN [c EXCEPT !.Reparsed = @ + 1] ELSE c
    IN  IF try /\ tree.ok
        THEN [conv |-> c, l |-> l2, ret |-> "ok", stmts |-> tree.stmts]
        ELSE IF rEOF
        THEN [conv |-> c1, l |-> l2, ret |-> "error", stmts |-> <<>>]
        ELSE [conv |-> c1, l |-> l2, ret |-> "continue", stmts |-> <<>>]

\* Mutant of processCopyBlock: rows are counted in data mode only.
processCopyBlockCountsInDataMode(c, srcTable, srcCols, b, isLine, rEOF) ==
    IF b = <<"M">> /\ isLine THEN [conv |-> c, ret |-> "return"]
    ELSE IF rEOF
    THEN [conv |-> Unexpected(c, "Reached eof while parsing copy-block"), ret |-> "return"]
    ELSE IF ~DataMode(c) THEN [conv |-> c, ret |-> "continue"]
    ELSE [conv |-> ProcessDataRow(StatsAddRow(c, srcTable, SchemaMode(c)),
                                  srcTable, srcCols, b),
          ret |-> "continue"]

\* The body of the loop of processCopyBlock, after b := r.ReadLine().
\* ret is "return" or "continue".  isLine tells that b ends in a line feed.
processCopyBlock(c, srcTable, srcCols, b, isLine, rEOF) ==
    IF b = <<"M">> /\ isLine THEN [conv |-> c, ret |-> "return"]
    ELSE IF rEOF
    THEN [conv |-> Unexpected(c, "Reached eof while parsing copy-block"), ret |-> "return"]
    ELSE LET c1 == StatsAddRow(c, srcTable, SchemaMode(c))
         IN  IF ~DataMode(c1) THEN [conv |-> c1, ret |-> "continue"]
             ELSE [conv |-> ProcessDataRow(c1, srcTable, srcCols, b), ret |-> "continue"]

\* Mutant of processInsertRows: the rows always go with the columns the
\* statement named.
RECURSIVE processInsertRowsNamedOnly(_, _, _)
processInsertRowsNamedOnly(c, k, rows) ==
    IF rows = <<>> THEN c
    ELSE processInsertRowsNamedOnly(ProcessDataRow(c, k.table, k.cols, Head(rows)),
                                    k, Tail(rows))

\* The loop of processPgDump over ci.rows (case insert).
RECURSIVE processInsertRows(_, _, _)
processInsertRows(c, k, rows) ==
    IF rows = <<>> THEN c
    ELSE LET cols == IF Len(k.cols) = 0
                     THEN MapGet(c.SrcSchema, k.table, ZeroTable).ColNames
                     ELSE k.cols
         IN  processInsertRows(ProcessDataRow(c, k.table, cols, Head(rows)),
                               k, Tail(rows))

\* The Conv a pass starts with: fresh, or holding table t from the schema pass.
CreateTPlain == CreateT(<<>>, <<>>, <<>>)

StartConv(mode, known) ==
    [(IF known THEN processCreateStmt(MakeConv, CreateTPlain) ELSE MakeConv)
        EXCEPT !.mode = mode]

RECURSIVE SeqsUpTo(_, _)
SeqsUpTo(S, n) ==
    IF n = 0 THEN {<<>>}
    ELSE LET shorter == SeqsUpTo(S, n - 1)
         IN  shorter \cup {Append(q, x) : q \in {r \in shorter : Len(r) = n - 1}, x \in S}

SchemaIdle ==
    /\ last = NoStmt
    /\ prev = MakeConv
    /\ nsteps = 0
    /\ pkSeen = 0

Init ==
    /\ \E p \in Passes : conv = StartConv(p[1], p[2])
    /\ input \in [lines : SeqsUpTo(LineSet, MaxLines), residual : ResidualSet]
    /\ pc = "chunk"
    /\ pos = 0
    /\ eof = FALSE
    /\ buf = <<>>
    /\ stmts = <<>>
    /\ ci = NoCi
    /\ err = FALSE
    /\ nParsed = 0
    /\ nFailed = 0
    /\ SchemaIdle
    /\ EvalIdle

\* processPgDump line 65, one iteration of readAndParseChunk's loop.
ReadChunkLine ==
    /\ pc = "chunk"
    /\ LET rd == ReadLine(input, pos)
           r == readAndParseChunk(conv, buf, rd.b, rd.eof)
           failed == (ContainsSemicolon(rd.b) \/ rd.eof) /\ ~Parse(Flatten(Append(buf, rd.b))).ok
       IN  /\ pos' = IF rd.isLine THEN pos + 1 ELSE pos
           /\ eof' = rd.eof
           /\ conv' = r.conv
           /\ buf' = r.l
           /\ stmts' = r.stmts
           /\ nFailed' = IF failed THEN nFailed + 1 ELSE nFailed
           /\ nParsed' = IF r.ret = "ok" THEN nParsed + Len(r.stmts) ELSE nParsed
           /\ err' = (r.ret = "error")
           /\ pc' = IF r.ret = "ok" THEN "stmts"
                    ELSE IF r.ret = "error" THEN "done" ELSE "chunk"
    /\ UNCHANGED <<input, ci>>
    /\ UNCHANGED <<last, prev, nsteps, pkSeen>>
    /\ UNCHANGED evalVars

\* processPgDump lines 69-73.
ProcessStatements ==
    /\ pc = "stmts"
    /\ LET r == processStatements(conv, stmts)
       IN  /\ conv' = r.conv
           /\ ci' = r.ci
           /\ pc' = IF r.ci.nil THEN "loop"
                    ELSE IF r.ci.stmt = "copyFrom" THEN "copy" ELSE "insert"
    /\ buf' = <<>>
    /\ prev' = conv
    /\ UNCHANGED <<input, pos, eof, stmts, err, nParsed, nFailed>>
    /\ UNCHANGED <<last, nsteps, pkSeen>>
    /\ UNCHANGED evalVars

\* processPgDump line 74, one iteration of processCopyBlock's loop.
CopyBlockLine ==
    /\ pc = "copy"
    /\ LET rd == ReadLine(input, pos)
           r == processCopyBlock(conv, ci.table, ci.cols, rd.b, rd.isLine, rd.eof)
       IN  /\ pos' = IF rd.isLine THEN pos + 1 ELSE pos
           /\ eof' = rd.eof
           /\ conv' = r.conv
           /\ pc' = IF r.ret = "return" THEN "loop" ELSE "copy"
    /\ UNCHANGED <<input, buf, stmts, ci, err, nParsed, nFailed>>
    /\ UNCHANGED <<last, prev, nsteps, pkSeen>>
    /\ UNCHANGED evalVars

\* processPgDump lines 75-84.
InsertRows ==
    /\ pc = "insert"
    /\ conv' = processInsertRows(conv, ci, ci.rows)
    /\ pc' = "loop"
    /\ UNCHANGED <<input, pos, eof, buf, stmts, ci, err, nParsed, nFailed>>
    /\ UNCHANGED <<last, prev, nsteps, pkSeen>>
    /\ UNCHANGED evalVars

\* processPgDump lines 87-91.
LoopCheck ==
    /\ pc = "loop"
    /\ pc' = IF eof THEN "done" ELSE "chunk"
    /\ ci' = NoCi
    /\ UNCHANGED <<conv, input, pos, eof, buf, stmts, err, nParsed, nFailed>>
    /\ UNCHANGED <<last, prev, nsteps, pkSeen>>
    /\ UNCHANGED evalVars

Next == ReadChunkLine \/ ProcessStatements \/ CopyBlockLine \/ InsertRows \/ LoopCheck

Spec == Init /\ [][Next]_vars

(***************************************************************************)
(* Properties of SpecSchema.                                               *)
(***************************************************************************)
TableT == "t"

HasT(c) == TableT \in DOMAIN c.SrcSchema

SecondPrimaryKeyMsgs ==
    {"CREATE TABLE statement is adding a second primary key",
     "ALTER TABLE statement is adding a second primary key"}

SecondPrimaryKeyLogged(c) ==
    Len(SelectSeq(c.Unexpected, LAMBDA m : m \in SecondPrimaryKeyMsgs))

\* The last statement applied primary-key constraints to t.
AppliedPrimaryKeys ==
    /\ HasT(conv)
    /\ \/ last.kind = "CreateStmt" /\ SchemaCount(conv, "CreateStmt") > SchemaCount(prev, "CreateStmt")
       \/ last.kind = "AlterTableStmt" /\ HasT(prev) /\ last.Relation = RelT
    /\ Len(StmtPrimaryKeys(last)) > 0

\* Primary-key constraints applied to t before the last statement.
PkSeenBefore ==
    IF last.kind = "CreateStmt" THEN 0 ELSE pkSeen - Len(StmtPrimaryKeys(last))

\* C7 (as claimed): when primary-key constraints are applied to a table in
\* sequence, the key afterwards is the column list of the latest constraint, in
\* its order, and one diagnostic is logged for every constraint that replaced an
\* earlier one; the first primary key of a table logs none.
C7_SecondKeyReplacesAndLogsOnce ==
    AppliedPrimaryKeys =>
        LET pks == StmtPrimaryKeys(last)
            k == Len(pks)
            replaced == IF PkSeenBefore = 0 THEN k - 1 ELSE k
        IN  /\ conv.SrcSchema[TableT].PrimaryKeys = toSchemaKeys(pks[k])
            /\ SecondPrimaryKeyLogged(conv) = SecondPrimaryKeyLogged(prev) + replaced

\* C8: every column listed in a table's primary key has a column definition
\* whose not-null flag is set.
C8_PrimaryKeyColumnsNotNull ==
    \A t \in DOMAIN conv.SrcSchema :
        LET ct == conv.SrcSchema[t] IN
        \A i \in 1..Len(ct.PrimaryKeys) :
            /\ ct.PrimaryKeys[i].Column \in DOMAIN ct.ColDefs
            /\ ct.ColDefs[ct.PrimaryKeys[i].Column].NotNull

\* A key column that was nullable before an alter-table gave t its primary key.
C8_Witness ==
    /\ HasT(conv) /\ HasT(prev)
    /\ last.kind = "AlterTableStmt"
    /\ Len(conv.SrcSchema[TableT].PrimaryKeys) = 2
    /\ ~prev.SrcSchema[TableT].ColDefs["a"].NotNull
    /\ ~prev.SrcSchema[TableT].ColDefs["b"].NotNull
    /\ conv.SrcSchema[TableT].ColDefs["a"].NotNull

\* The last statement was ALTER TABLE t ALTER COLUMN col SET NOT NULL.
SetNotNullOn(n, col) == n = AlterT(RelT, <<SetNotNull(col)>>)

\* C9: SET NOT NULL on a column x of t sets x's not-null flag and changes no
\* other column definition, and no later alter-table or create-index statement
\* clears a not-null flag.
C9_Step ==
    /\ \A x \in {"a", "b"} :
        (HasT(conv) /\ SetNotNullOn(last', x)) =>
            /\ HasT(conv')
            /\ conv'.SrcSchema[TableT].ColDefs[x].NotNull
            /\ DOMAIN conv'.SrcSchema[TableT].ColDefs = DOMAIN conv.SrcSchema[TableT].ColDefs
            /\ \A y \in DOMAIN conv.SrcSchema[TableT].ColDefs \ {x} :
                   conv'.SrcSchema[TableT].ColDefs[y] = conv.SrcSchema[TableT].ColDefs[y]
    /\ (HasT(conv) /\ last'.kind \in {"AlterTableStmt", "IndexStmt"}) =>
            /\ HasT(conv')
            /\ \A x \in DOMAIN conv.SrcSchema[TableT].ColDefs :
                   conv.SrcSchema[TableT].ColDefs[x].NotNull =>
                       /\ x \in DOMAIN conv'.SrcSchema[TableT].ColDefs
                       /\ conv'.SrcSchema[TableT].ColDefs[x].NotNull

C9_SetNotNullSticks == [][C9_Step]_vars

\* SET NOT NULL made a nullable column a of t not null, and left b nullable.
C9_Witness ==
    /\ HasT(conv) /\ HasT(prev)
    /\ SetNotNullOn(last, "a")
    /\ ~prev.SrcSchema[TableT].ColDefs["a"].NotNull
    /\ conv.SrcSchema[TableT].ColDefs["a"].NotNull
    /\ ~conv.SrcSchema[TableT].ColDefs["b"].NotNull

(***************************************************************************)
(* Properties of Spec.                                                     *)
(***************************************************************************)
RowsOf(c, t) == MapGet(c.Rows, t, 0)

BadRowsOf(c, t) == MapGet(c.BadRows, t, 0)

\* C1: processPgDump returns an error exactly when end-of-stream is reached
\* with a chunk that does not parse; otherwise it runs until the reader is at
\* end-of-stream and returns nil, whatever the statements and rows were.
C1_ErrorIffUnparsableAtEOF ==
    /\ pc # "done" => ~err
    /\ pc = "chunk" => ~eof
    /\ pc = "done" => /\ eof
                      /\ pos = Len(input.lines)
                      /\ err <=> ~Parse(Flatten(buf)).ok

\* A run that skipped a statement, met a bad row and a truncated copy block,
\* and returned nil.
C1_Witness ==
    /\ pc = "done" /\ ~err
    /\ Skipped(conv) > 0
    /\ BadRowsOf(conv, TableT) > 0
    /\ \E i \in 1..Len(conv.Unexpected) :
           conv.Unexpected[i] = "Reached eof while parsing copy-block"

\* C2: a parse attempt that fails before end-of-stream is no error: it adds one
\* to the reparse counter, keeps the lines read so far and goes on reading; the
\* reparse counter is the number of failed parse attempts.
C2_Step ==
    (pc = "chunk" /\ nFailed' = nFailed + 1 /\ ~eof') =>
        /\ ~err'
        /\ pc' = "chunk"
        /\ conv'.Reparsed = conv.Reparsed + 1
        /\ pos' = pos + 1
        /\ buf' = Append(buf, input.lines[pos + 1])

C2_FailedParseIsRetried == [](conv.Reparsed = nFailed) /\ [][C2_Step]_vars

\* A chunk of two lines parsed after the attempt on its first line had failed.
C2_Witness ==
    /\ pc = "stmts"
    /\ conv.Reparsed = 1
    /\ nFailed = 1
    /\ Len(buf) = 2
    /\ Len(stmts) = 2

\* The SQL text of a dump: its lines outside the copy blocks.  A copy block
\* starts after a line that ends in COPY ... FROM stdin; and ends with the
\* marker line.  open tells that the dump ends inside a copy block.
StartsCopyBlock(line) ==
    Len(line) >= 2 /\ line[Len(line) - 1] = "C" /\ line[Len(line)] = ";"

RECURSIVE SqlText(_, _)
SqlText(ls, inCopy) ==
    IF ls = <<>> THEN [toks |-> <<>>, open |-> inCopy]
    ELSE IF inCopy THEN SqlText(Tail(ls), Head(ls) # <<"M">>)
    ELSE LET r == SqlText(Tail(ls), StartsCopyBlock(Head(ls)))
         IN  [toks |-> Head(ls) \o r.toks, open |-> r.open]

DumpText(in) == SqlText(in.lines, FALSE).toks \o in.residual

\* Every statement of the dump is terminated and every copy block is closed.
WellTerminated(in) ==
    /\ ~SqlText(in.lines, FALSE).open
    /\ Parse(DumpText(in)).ok
    /\ DumpText(in) # <<>> => DumpText(in)[Len(DumpText(in))] = ";"
    /\ \A i \in 1..Len(in.lines) :
           (\E j \in 1..Len(in.lines[i]) : in.lines[i][j] = "C")
               => StartsCopyBlock(in.lines[i])

TotalStatements(in) == Len(Parse(DumpText(in)).stmts)

\* C3 (as claimed): on a dump whose statements are all well terminated, the
\* statement counts of the successful chunk parses add up to the number of
\* statements of the dump.
C3_StatementCountPreserved ==
    (pc = "done" /\ WellTerminated(input)) => nParsed = TotalStatements(input)

\* Rows of an insert that supply fewer values than the statement's columns.
ShortRows(k) == Len(SelectSeq(k.rows, LAMBDA row : Len(row) < Len(k.cols)))

\* C10 (as claimed): after the rows of an insert statement, the table's bad-row
\* counter has grown by one for every row that is short of values, every row
\* of the statement was handed to the converter, no error was raised, and the
\* table's total-row counter has grown by one for every row.
C10_ShortRowIsBadRowAndCounted ==
    (pc = "loop" /\ ~ci.nil /\ ci.stmt = "insert") =>
        /\ ~err
        /\ BadRowsOf(conv, ci.table) = BadRowsOf(prev, ci.table) + ShortRows(ci)
        /\ Len(conv.DataRows) = Len(prev.DataRows) + Len(ci.rows)
        /\ RowsOf(conv, ci.table) = RowsOf(prev, ci.table) + Len(ci.rows)

(***************************************************************************)
(* SpecFinal: Conv.AddPrimaryKeys, the primary-key finalizer, applied once *)
(* to a target schema.  Its code is not part of the sources at hand; it is *)
(* modelled from section 4.7 of the specification and checked against     *)
(* TestAddPrimaryKeys.                                                     *)
(***************************************************************************)
Int64 == "INT64"

Float64 == "FLOAT64"

IndexKey(col) == [Col |-> col, Desc |-> FALSE]

SyntheticPKey(col, sequence) == [Col |-> col, Sequence |-> sequence]

SpColumnDef(name, t) == [Name |-> name, T |-> t]

ColumnSet(cols) == {cols[i] : i \in 1..Len(cols)}

RECURSIVE ColDefsOf(_)
ColDefsOf(cols) ==
    IF cols = <<>> THEN EmptyMap
    ELSE MapSet(ColDefsOf(Tail(cols)), Head(cols),
                SpColumnDef(Head(cols), IF Head(cols) = "b" THEN Float64 ELSE Int64))

CreateTable(name, cols, pks) ==
    [Name |-> name, ColNames |-> cols, ColDefs |-> ColDefsOf(cols), Pks |-> pks]

\* Mutants of buildPrimaryKeyFrom and AddPrimaryKeysTo, see below.
buildPrimaryKeyFromBase(cols, key, count) == key

AddPrimaryKeysToEvery(c, tables) ==
    [c EXCEPT !.SpSchema =
        [t \in DOMAIN c.SpSchema |->
            [c.SpSchema[t] EXCEPT !.ColNames = Append(@, "synth_id"),
                                  !.ColDefs = MapSet(@, "synth_id", SpColumnDef("synth_id", Int64)),
                                  !.Pks = <<IndexKey("synth_id")>>]],
              !.SyntheticPKeys =
        [t \in DOMAIN c.SpSchema |-> SyntheticPKey("synth_id", 0)]]

\* The fixed base name, made distinct from the column names of the table:
\* synth_id, synth_id0, synth_id1, ...
RECURSIVE buildPrimaryKeyFrom(_, _, _)
buildPrimaryKeyFrom(cols, key, count) ==
    IF key \notin ColumnSet(cols) THEN key
    ELSE buildPrimaryKeyFrom(cols, "synth_id" \o ToString(count), count + 1)

\* Mutant of buildPrimaryKey: the name is also made distinct from the synthetic
\* columns of the tables finalized before.
buildPrimaryKeyAcrossTables(c, spTable) ==
    buildPrimaryKeyFrom(c.SpSchema[spTable].ColNames
                           \o [i \in 1..Cardinality(DOMAIN c.SyntheticPKeys) |-> "synth_id"],
                        "synth_id", 0)

buildPrimaryKey(c, spTable) ==
    buildPrimaryKeyFrom(c.SpSchema[spTable].ColNames, "synth_id", 0)

\* The loop of AddPrimaryKeys over the tables of conv.SpSchema.
RECURSIVE AddPrimaryKeysTo(_, _)
AddPrimaryKeysTo(c, tables) ==
    IF tables = {} THEN c
    ELSE LET t == CHOOSE x \in tables : TRUE
             ct == c.SpSchema[t]
             k == buildPrimaryKey(c, t)
             ct2 == [ct EXCEPT !.ColNames = Append(@, k),
                               !.ColDefs = MapSet(@, k, SpColumnDef(k, Int64)),
                               !.Pks = <<IndexKey(k)>>]
             c2 == IF Len(ct.Pks) = 0
                   THEN [c EXCEPT !.SpSchema = MapSet(@, t, ct2),
                                  !.SyntheticPKeys = MapSet(@, t, SyntheticPKey(k, 0))]
                   ELSE c
         IN  AddPrimaryKeysTo(c2, tables \ {t})

AddPrimaryKeys(c) == AddPrimaryKeysTo(c, DOMAIN c.SpSchema)

\* The loop of AddPrimaryKeys when the map yields the tables in this order.
RECURSIVE AddPrimaryKeysInOrder(_, _)
AddPrimaryKeysInOrder(c, order) ==
    IF order = <<>> THEN c
    ELSE LET t == Head(order)
             ct == c.SpSchema[t]
             k == buildPrimaryKey(c, t)
             ct2 == [ct EXCEPT !.ColNames = Append(@, k),
                               !.ColDefs = MapSet(@, k, SpColumnDef(k, Int64)),
                               !.Pks = <<IndexKey(k)>>]
             c2 == IF Len(ct.Pks) = 0
                   THEN [c EXCEPT !.SpSchema = MapSet(@, t, ct2),
                                  !.SyntheticPKeys = MapSet(@, t, SyntheticPKey(k, 0))]
                   ELSE c
         IN  AddPrimaryKeysInOrder(c2, Tail(order))

\* The target schemas the finalizer is applied to: tables "table" and "u",
\* each absent or with one of the column lists below and a key over them.
FinalColNames ==
    {<<"a", "b">>, <<"a">>, <<"b", "a">>, <<"a", "b", "synth_id">>,
     <<"synth_id", "a">>, <<"a", "synth_id0", "synth_id">>,
     <<"synth_id1", "a", "synth_id">>}

FinalPks == {<<>>, <<IndexKey("a")>>, <<IndexKey("b"), IndexKey("a")>>}

FinalTables(name) ==
    UNION {{CreateTable(name, cols, pks) :
                pks \in {k \in FinalPks : \A i \in 1..Len(k) : k[i].Col \in ColumnSet(cols)}} :
           cols \in FinalColNames}

FinalSchemas ==
    {MapSet(EmptyMap, "table", t) : t \in FinalTables("table")}
    \cup {MapSet(MapSet(EmptyMap, "table", t), "u", u) :
            t \in FinalTables("table"), u \in FinalTables("u")}

InitFinal ==
    /\ \E sp \in FinalSchemas : conv = [MakeConv EXCEPT !.SpSchema = sp]
    /\ prev = MakeConv
    /\ pc = "final"
    /\ last = NoStmt
    /\ nsteps = 0
    /\ pkSeen = 0
    /\ DumpIdle
    /\ EvalIdle

DoAddPrimaryKeys ==
    /\ pc = "final"
    /\ conv' = AddPrimaryKeys(conv)
    /\ prev' = conv
    /\ pc' = "finalized"
    /\ UNCHANGED <<last, nsteps, pkSeen>>
    /\ UNCHANGED dumpVars
    /\ UNCHANGED evalVars

NextFinal == DoAddPrimaryKeys

SpecFinal == InitFinal /\ [][NextFinal]_vars

(***************************************************************************)
(* Properties of SpecFinal.                                                *)
(***************************************************************************)
\* The names the finalizer may give the synthetic column.
SynthNames == {"synth_id"} \cup {"synth_id" \o ToString(i) : i \in 0..3}

\* Table t of the schema before had no primary key and now has the synthetic one.
GotSyntheticKey(t) ==
    LET old == prev.SpSchema[t]
        new == conv.SpSchema[t]
    IN  \E k \in SynthNames :
          /\ k \notin ColumnSet(old.ColNames)
          /\ \A n \in SynthNames : n \notin ColumnSet(old.ColNames) => Len(k) <= Len(n)
          /\ new.ColNames = Append(old.ColNames, k)
          /\ new.ColDefs = MapSet(old.ColDefs, k, SpColumnDef(k, Int64))
          /\ new.Pks = <<IndexKey(k)>>
          /\ new.Name = old.Name
          /\ t \in DOMAIN conv.SyntheticPKeys
          /\ conv.SyntheticPKeys[t] = SyntheticPKey(k, 0)

\* C5: after AddPrimaryKeys every table of the target schema has a primary key:
\* a table that had none has the synthetic column as its sole key, a table that
\* had one is unchanged (columns, column order, key list) and has no entry in
\* the synthetic-key registry.
C5_EveryTableHasOnePrimaryKey ==
    pc = "finalized" =>
        /\ DOMAIN conv.SpSchema = DOMAIN prev.SpSchema
        /\ \A t \in DOMAIN conv.SpSchema :
              /\ Len(conv.SpSchema[t].Pks) >= 1
              /\ Len(prev.SpSchema[t].Pks) = 0 =>
                    /\ Len(conv.SpSchema[t].Pks) = 1
                    /\ conv.SpSchema[t].Pks[1].Col \notin ColumnSet(prev.SpSchema[t].ColNames)
                    /\ conv.SpSchema[t].Pks[1].Col \in ColumnSet(conv.SpSchema[t].ColNames)
              /\ Len(prev.SpSchema[t].Pks) > 0 =>
                    /\ conv.SpSchema[t] = prev.SpSchema[t]
                    /\ t \notin DOMAIN conv.SyntheticPKeys

\* One table had a key and the other had none.
C5_Witness ==
    /\ pc = "finalized"
    /\ DOMAIN prev.SpSchema = {"table", "u"}
    /\ prev.SpSchema["table"].Pks = <<IndexKey("b"), IndexKey("a")>>
    /\ prev.SpSchema["u"].Pks = <<>>
    /\ conv.SpSchema["table"].Pks = <<IndexKey("b"), IndexKey("a")>>
    /\ conv.SpSchema["u"].Pks = <<IndexKey("synth_id")>>

\* C6: a table without a primary key gets exactly one new integer column, named
\* synth_id made distinct from the table's column names, placed last after the
\* original columns in their order, and a registry entry with that name and
\* sequence 0.
C6_SyntheticColumnAppendedLast ==
    pc = "finalized" =>
        \A t \in DOMAIN prev.SpSchema :
            Len(prev.SpSchema[t].Pks) = 0 => GotSyntheticKey(t)

\* The table of TestAddPrimaryKeys, and a table whose columns take the base
\* name and the first alternative.
C6_Witness ==
    /\ pc = "finalized"
    /\ DOMAIN prev.SpSchema = {"table", "u"}
    /\ prev.SpSchema["table"] = CreateTable("table", <<"a", "b">>, <<>>)
    /\ conv.SpSchema["table"].ColNames = <<"a", "b", "synth_id">>
    /\ conv.SyntheticPKeys["table"] = SyntheticPKey("synth_id", 0)
    /\ prev.SpSchema["u"] = CreateTable("u", <<"a", "synth_id0", "synth_id">>, <<>>)
    /\ conv.SpSchema["u"].ColNames = <<"a", "synth_id0", "synth_id", "synth_id1">>
    /\ conv.SyntheticPKeys["u"] = SyntheticPKey("synth_id1", 0)

(***************************************************************************)
(* SpecEval: EvalCmd.Execute.  Every call Execute makes is a step whose    *)
(* outcome (nil, an error, a panic) is chosen freely; DataConv, whose code *)
(* is not part of the sources at hand, is a call that dispatches up to     *)
(* MaxWrites data writes to the target database before it returns.         *)
(***************************************************************************)
Call(fn, ret) == [fn |-> fn, ret |-> ret]

\* Where Execute goes after a call: on to next, or out with a status.
Goto(next) == [pc |-> next, exit |-> "none"]

Return(status) == [pc |-> "exit", exit |-> status]

\* Mutant of afterCreateOrUpdateDatabase: the error is not looked at.
afterCreateOrUpdateDatabaseUnchecked(ret) == Goto("DataConv")

\* Execute lines 137-141.
afterCreateOrUpdateDatabase(ret) ==
    IF ret # "nil" THEN Return("ExitFailure") ELSE Goto("DataConv")

\* Execute lines 143-153.
afterDataConv(ret, skipForeignKeys) ==
    IF ret # "nil" THEN Return("ExitFailure")
    ELSE IF ~skipForeignKeys THEN Goto("UpdateDDLForeignKeys")
    ELSE Goto("Report")

\* A call made at control point fn, returning ret, after which Execute is at to.
Step(fn, ret, to) ==
    /\ pc = fn
    /\ calls' = Append(calls, Call(fn, ret))
    /\ pc' = to.pc
    /\ exit' = to.exit
    /\ UNCHANGED <<cmd, written>>
    /\ UNCHANGED <<conv, last, prev, nsteps, pkSeen>>
    /\ UNCHANGED dumpVars

InitEval ==
    /\ cmd \in [skipForeignKeys : BOOLEAN, filePrefix : {"", "out."}]
    /\ calls = <<>>
    /\ written = 0
    /\ exit = "none"
    /\ pc = "NewSourceProfile"
    /\ conv = MakeConv
    /\ SchemaIdle
    /\ DumpIdle

\* Execute lines 65-68.
NewSourceProfile ==
    \E ret \in {"nil", "error"} :
        Step("NewSourceProfile", ret,
             IF ret # "nil" THEN Return("ExitUsageError") ELSE Goto("ToLegacyDriver"))

\* Execute lines 69-72.
ToLegacyDriver ==
    \E ret \in {"nil", "error"} :
        Step("ToLegacyDriver", ret,
             IF ret # "nil" THEN Return("ExitUsageError") ELSE Goto("NewTargetProfile"))

\* Execute lines 74-90.
NewTargetProfile ==
    \E ret \in {"nil", "error"} :
        Step("NewTargetProfile", ret,
             IF ret # "nil" THEN Return("ExitUsageError")
             ELSE IF cmd.filePrefix = "" THEN Goto("GetDatabaseName")
             ELSE Goto("SchemaConv"))

\* Execute lines 92-98.
GetDatabaseName ==
    /\ pc = "GetDatabaseName"
    /\ \E ret \in {"nil", "error"} :
        /\ calls' = Append(calls, Call("GetDatabaseName", ret))
        /\ pc' = IF ret # "nil" THEN "exit" ELSE "SchemaConv"
        /\ exit' = IF ret # "nil" THEN "panic" ELSE "none"
        /\ cmd' = IF ret # "nil" THEN cmd ELSE [cmd EXCEPT !.filePrefix = "dbName."]
    /\ UNCHANGED written
    /\ UNCHANGED <<conv, last, prev, nsteps, pkSeen>>
    /\ UNCHANGED dumpVars

\* Execute lines 100-112.
SchemaConv ==
    \E ret \in {"nil", "error"} :
        Step("SchemaConv", ret,
             IF ret # "nil" THEN Return("panic") ELSE Goto("WriteSchemaFile"))

\* Execute lines 114-116: the schema file, the session file and the report.
WriteSchemaFile == Step("WriteSchemaFile", "nil", Goto("getResourceIds"))

\* Execute lines 118-122.
getResourceIds ==
    \E ret \in {"nil", "error"} :
        Step("getResourceIds", ret,
             IF ret # "nil" THEN Return("ExitUsageError")
             ELSE Goto("NewDatabaseAdminClient"))

\* Execute lines 124-129.
NewDatabaseAdminClient ==
    \E ret \in {"nil", "error"} :
        Step("NewDatabaseAdminClient", ret,
             IF ret # "nil" THEN Return("ExitFailure") ELSE Goto("GetClient"))

\* Execute lines 130-135.
GetClient ==
    \E ret \in {"nil", "error"} :
        Step("GetClient", ret,
             IF ret # "nil" THEN Return("ExitFailure")
             ELSE Goto("CreateOrUpdateDatabase"))

\* Execute lines 137-141.
CreateOrUpdateDatabase ==
    \E ret \in {"nil", "error"} :
        Step("CreateOrUpdateDatabase", ret, afterCreateOrUpdateDatabase(ret))

\* Execute line 143: DataConv is called ...
DataConv == Step("DataConv", "running", Goto("DataConvRunning"))

\* ... dispatches a data write to the target database ...
DataWrite ==
    /\ pc = "DataConvRunning"
    /\ written < MaxWrites
    /\ written' = written + 1
    /\ UNCHANGED <<cmd, calls, exit>>
    /\ UNCHANGED schemaVars
    /\ UNCHANGED dumpVars

\* ... and returns (lines 143-153).
DataConvReturn ==
    /\ pc = "DataConvRunning"
    /\ \E ret \in {"nil", "error"} :
        LET to == afterDataConv(ret, cmd.skipForeignKeys)
        IN  /\ calls' = [calls EXCEPT ![Len(calls)] = Call("DataConv", ret)]
            /\ pc' = to.pc
            /\ exit' = to.exit
    /\ UNCHANGED <<cmd, written>>
    /\ UNCHANGED <<conv, last, prev, nsteps, pkSeen>>
    /\ UNCHANGED dumpVars

\* Execute lines 148-153.
UpdateDDLForeignKeys ==
    \E ret \in {"nil", "error"} :
        Step("UpdateDDLForeignKeys", ret,
             IF ret # "nil" THEN Return("ExitFailure") ELSE Goto("Report"))

\* Execute lines 154-157: the report and the bad-data file.
Report == Step("Report", "nil", Return("ExitSuccess"))

NextEval ==
    \/ NewSourceProfile \/ ToLegacyDriver \/ NewTargetProfile \/ GetDatabaseName
    \/ SchemaConv \/ WriteSchemaFile \/ getResourceIds \/ NewDatabaseAdminClient
    \/ GetClient \/ CreateOrUpdateDatabase \/ DataConv \/ DataWrite
    \/ DataConvReturn \/ UpdateDDLForeignKeys \/ Report

SpecEval == InitEval /\ [][NextEval]_vars

(***************************************************************************)
(* Properties of SpecEval.                                                 *)
(***************************************************************************)
Called(fn) == {i \in 1..Len(calls) : calls[i].fn = fn}

Returned(fn, ret) == {i \in 1..Len(calls) : calls[i] = Call(fn, ret)}

\* C4: DataConv is never called before CreateOrUpdateDatabase has returned
\* without error, no data write is dispatched before that either, and once
\* CreateOrUpdateDatabase has failed Execute is over with ExitFailure, DataConv
\* is not called and no data write is dispatched.
C4_SchemaCreatedBeforeDataConv ==
    /\ \A i \in Called("DataConv") :
           \E j \in Returned("CreateOrUpdateDatabase", "nil") : j < i
    /\ written > 0 =>
           /\ Returned("CreateOrUpdateDatabase", "nil") # {}
           /\ Called("DataConv") # {}
    /\ Returned("CreateOrUpdateDatabase", "error") # {} =>
           /\ pc = "exit" /\ exit = "ExitFailure"
           /\ Called("DataConv") = {}
           /\ written = 0

\* Data conversion ran and dispatched writes after the database was created.
C4_Witness ==
    /\ exit = "ExitSuccess"
    /\ written = MaxWrites
    /\ Returned("CreateOrUpdateDatabase", "nil") # {}
    /\ Returned("DataConv", "nil") # {}

(***************************************************************************)
(* Properties of Spec: the copy-block decoder.                             *)
(***************************************************************************)
\* The line the next read of the copy block returns is a data line: it ends in
\* a line feed and is not the end-of-block marker.
NextIsDataLine ==
    LET rd == ReadLine(input, pos) IN rd.isLine /\ rd.b # <<"M">>

\* C11: while a copy block is decoded, a read that returns a data line adds
\* exactly one to the row counter of the block's table, in schema mode and in
\* data mode, and a read that returns the marker or hits end-of-stream adds
\* nothing; so the counter grows by the number of data lines of the block.
C11_Step ==
    pc = "copy" =>
        RowsOf(conv', ci.table)
            = RowsOf(conv, ci.table) + (IF NextIsDataLine THEN 1 ELSE 0)

MaxChars == 4

LF == "\n"

CR == "\r"

TAB == "\t"

BS == "\\"

\* The characters of the lines: backslash, tab, carriage return, space and
\* one more character, the dot of the end-of-block marker.
CopyAlphabet == {BS, TAB, CR, " ", "."}

\* Reader.ReadLine, with the line feed of a complete line in b.
ReadLineBytes(in, p) ==
    LET rd == ReadLine(in, p)
    IN  [b |-> IF rd.isLine THEN Append(rd.b, LF) ELSE rd.b,
         eof |-> rd.eof, isLine |-> rd.isLine]

\* strings.ReplaceAll(s, old, new) for a non-empty old: the non-overlapping
\* occurrences of old, from the left.
RECURSIVE ReplaceAll(_, _, _)
ReplaceAll(s, old, new) ==
    IF Len(s) < Len(old) THEN s
    ELSE IF SubSeq(s, 1, Len(old)) = old
    THEN new \o ReplaceAll(SubSeq(s, Len(old) + 1, Len(s)), old, new)
    ELSE <<Head(s)>> \o ReplaceAll(Tail(s), old, new)

RECURSIVE TrimLeft(_, _)
TrimLeft(s, cutset) ==
    IF s # <<>> /\ Head(s) \in cutset THEN TrimLeft(Tail(s), cutset) ELSE s

RECURSIVE TrimRight(_, _)
TrimRight(s, cutset) ==
    IF s # <<>> /\ s[Len(s)] \in cutset
    THEN TrimRight(SubSeq(s, 1, Len(s) - 1), cutset)
    ELSE s

\* strings.Trim(s, cutset): all leading and trailing characters of cutset.
Trim(s, cutset) == TrimRight(TrimLeft(s, cutset), cutset)

\* strings.Split(s, sep) for a separator of one character; cur is the field
\* being read.
RECURSIVE SplitFrom(_, _, _)
SplitFrom(s, sep, cur) ==
    IF s = <<>> THEN <<cur>>
    ELSE IF Head(s) = sep THEN <<cur>> \o SplitFrom(Tail(s), sep, <<>>)
    ELSE SplitFrom(Tail(s), sep, Append(cur, Head(s)))

Split(s, sep) == SplitFrom(s, sep, <<>>)

\* The string of a sequence of characters.
RECURSIVE StringOf(_)
StringOf(chars) ==
    IF chars = <<>> THEN "" ELSE Head(chars) \o StringOf(Tail(chars))

StringsOf(fields) == [i \in 1..Len(fields) |-> StringOf(fields[i])]

\* Mutant of copyFields: the doubled backslashes are left as they are.
copyFieldsKeepsEscapes(b) == Split(Trim(b, {CR, LF}), TAB)

\* processCopyBlock lines 154-158: the values of line b.
copyFields(b) == Split(Trim(ReplaceAll(b, <<BS, BS>>, <<BS>>), {CR, LF}), TAB)

\* Mutant of processCopyBlockBytes: a line that starts with the marker ends
\* the block.
processCopyBlockBytesMarkerPrefix(c, srcTable, srcCols, b, rEOF) ==
    IF Len(b) >= 2 /\ SubSeq(b, 1, 2) = <<BS, ".">> /\ b[Len(b)] = LF
    THEN [conv |-> c, ret |-> "return"]
    ELSE IF rEOF
    THEN [conv |-> Unexpected(c, "Reached eof while parsing copy-block"), ret |-> "return"]
    ELSE LET c1 == StatsAddRow(c, srcTable, SchemaMode(c))
         IN  IF ~DataMode(c1) THEN [conv |-> c1, ret |-> "continue"]
             ELSE [conv |-> ProcessDataRow(c1, srcTable, srcCols, StringsOf(copyFields(b))),
                   ret |-> "continue"]

\* The body of the loop of processCopyBlock, after b := r.ReadLine(), over
\* the bytes of b.  ret is "return" or "continue".
processCopyBlockBytes(c, srcTable, srcCols, b, rEOF) ==
    IF b = <<BS, ".", LF>> \/ b = <<BS, ".", CR, LF>>
    THEN [conv |-> c, ret |-> "return"]
    ELSE IF rEOF
    THEN [conv |-> Unexpected(c, "Reached eof while parsing copy-block"), ret |-> "return"]
    ELSE LET c1 == StatsAddRow(c, srcTable, SchemaMode(c))
         IN  IF ~DataMode(c1) THEN [conv |-> c1, ret |-> "continue"]
             ELSE [conv |-> ProcessDataRow(c1, srcTable, srcCols, StringsOf(copyFields(b))),
                   ret |-> "continue"]

\* The lines after the first of a block: none, or a marker and one more line.
CopyTails == { <<>>, << <<BS, ".">>, <<".">> >>, << <<BS, ".", CR>>, <<".">> >> }

CopyResiduals == { <<>>, <<BS, ".">> }

\* The streams a block is read from: nothing, or any first line and a tail.
CopyInputs ==
    { [lines |-> ls, residual |-> res] :
        ls \in {<<>>} \cup { <<first>> \o rest :
                                first \in SeqsUpTo(CopyAlphabet, MaxChars),
                                rest \in CopyTails },
        res \in CopyResiduals }

\* processCopyBlock is entered after a COPY t (a, b) FROM stdin, in the schema
\* pass and in the data pass with t in the source schema.
InitCopy ==
    /\ \E mode \in {"schema", "data"} : conv = StartConv(mode, TRUE)
    /\ input \in CopyInputs
    /\ pc = "copy"
    /\ ci = copyOrInsert("copyFrom", "t", <<"a", "b">>, <<>>)
    /\ pos = 0
    /\ eof = FALSE
    /\ buf = <<>>
    /\ stmts = <<>>
    /\ err = FALSE
    /\ nParsed = 0
    /\ nFailed = 0
    /\ SchemaIdle
    /\ EvalIdle

\* One iteration of processCopyBlock's loop (lines 142-158); prev is the Conv
\* before it.
CopyBlockBytes ==
    /\ pc = "copy"
    /\ LET rd == ReadLineBytes(input, pos)
           r == processCopyBlockBytes(conv, ci.table, ci.cols, rd.b, rd.eof)
       IN  /\ pos' = IF rd.isLine THEN pos + 1 ELSE pos
           /\ eof' = rd.eof
           /\ conv' = r.conv
           /\ pc' = IF r.ret = "return" THEN "loop" ELSE "copy"
    /\ prev' = conv
    /\ UNCHANGED <<input, buf, stmts, ci, err, nParsed, nFailed>>
    /\ UNCHANGED <<last, nsteps, pkSeen>>
    /\ UNCHANGED evalVars

NextCopy == CopyBlockBytes

SpecCopy == InitCopy /\ [][NextCopy]_vars

(***************************************************************************)
(* Properties of SpecCopy.                                                 *)
(***************************************************************************)
\* Line i of the input is the end-of-block marker followed by LF or by CRLF.
IsMarkerLine(i) == input.lines[i] = <<BS, ".">> \/ input.lines[i] = <<BS, ".", CR>>

MarkerLines == {i \in 1..Len(input.lines) : IsMarkerLine(i)}

EofDiagnostics(c) ==
    Len(SelectSeq(c.Unexpected, LAMBDA m : m = "Reached eof while parsing copy-block"))

\* C12: the block ends at the first line that is exactly the marker followed
\* by LF or CRLF, with that line consumed and none after it, or else at
\* end-of-stream with every line consumed and one "unexpected" diagnostic;
\* no fatal error is raised either way.
C12_ConsumesToMarkerOrEOF ==
    /\ ~err
    /\ pc = "copy" =>
          /\ ~eof
          /\ \A i \in MarkerLines : i > pos
          /\ EofDiagnostics(conv) = 0
    /\ pc = "loop" =>
          IF MarkerLines = {}
          THEN eof /\ pos = Len(input.lines) /\ Len(conv.Unexpected) = 1
               /\ EofDiagnostics(conv) = 1
          ELSE ~eof /\ pos \in MarkerLines /\ (\A i \in MarkerLines : i >= pos)
               /\ conv.Unexpected = <<>>

\* A line that starts like the marker was read as data, and the block ended at
\* the marker after it, before the last line.
C12_Witness ==
    /\ pc = "loop"
    /\ input.lines = << <<BS, ".", " ">>, <<BS, ".", CR>>, <<".">> >>
    /\ pos = 2
    /\ RowsOf(conv, ci.table) = 1

\* The last step handed a line to the Data Row Converter: line pos of the input.
DecodedALine == pos >= 1 /\ Len(conv.DataRows) = Len(prev.DataRows) + 1

DecodedVals == conv.DataRows[Len(conv.DataRows)].vals

\* A line without its terminator: the line feed is not in input.lines, and a
\* carriage return before it belongs to the terminator.
Content(line) ==
    IF line # <<>> /\ line[Len(line)] = CR THEN SubSeq(line, 1, Len(line) - 1) ELSE line

\* The values a field can hold: no tab, which separates the fields.
FieldValues == SeqsUpTo(CopyAlphabet \ {TAB}, MaxChars)

\* What the dump writes for a value: every backslash doubled.
RECURSIVE Doubled(_)
Doubled(v) ==
    IF v = <<>> THEN <<>>
    ELSE (IF Head(v) = BS THEN <<BS, BS>> ELSE <<Head(v)>>) \o Doubled(Tail(v))

OriginalIs(field, val) ==
    \A v \in FieldValues :
        (Len(v) <= Len(field) /\ Doubled(v) = field) => val = StringOf(v)

C14_OnlyTerminatorRemoved ==
    (DataMode(conv) /\ DecodedALine) =>
        DecodedVals =
            StringsOf(Split(ReplaceAll(Content(input.lines[pos]), <<BS, BS>>, <<BS>>), TAB))

(***************************************************************************)
(* Properties of Spec: the rows that reach the Data Row Converter.         *)
(***************************************************************************)
\* The calls of ProcessDataRow since the last batch went to processStatements.
AddedRows == SubSeq(conv.DataRows, Len(prev.DataRows) + 1, Len(conv.DataRows))

ValueText(v) == IF v.k = "Integer" THEN ToString(v.i) ELSE v.s

\* The VALUES rows of the insert statements of a batch on tables of the
\* source schema, in the order of the batch.
RECURSIVE InsertedRows(_, _)
InsertedRows(batch, c) ==
    IF batch = <<>> THEN <<>>
    ELSE LET n == Head(batch)
             here == IF n.kind = "InsertStmt" /\ ~n.Relation.nil
                        /\ getTableName(n.Relation).name \in DOMAIN c.SrcSchema
                     THEN [i \in 1..Len(n.Rows) |->
                             [j \in 1..Len(n.Rows[i]) |-> ValueText(n.Rows[i][j])]]
                     ELSE <<>>
         IN  here \o InsertedRows(Tail(batch), c)

InCopyBlock == pc \in {"copy", "loop"} /\ ~ci.nil /\ ci.stmt = "copyFrom"

\* C15 (as claimed): in schema mode nothing is passed to ProcessDataRow; in
\* data mode, after a batch without a copy statement the rows passed are the
\* VALUES rows of its insert statements on known tables, once each and in
\* order, and in a copy block the rows passed are the data lines read since the
\* copy statement, once each and in order.
C15_RowsFlowOnlyInDataMode ==
    /\ SchemaMode(conv) => conv.DataRows = <<>>
    /\ (DataMode(conv) /\ pc = "loop" /\ (ci.nil \/ ci.stmt = "insert")) =>
          [i \in 1..Len(AddedRows) |-> AddedRows[i].vals] = InsertedRows(stmts, conv)
    /\ (DataMode(conv) /\ InCopyBlock) =>
          LET marker == IF pc = "loop" /\ ~eof THEN 1 ELSE 0
              first == pos - marker - Len(AddedRows)
          IN  /\ first >= 1
              /\ StartsCopyBlock(input.lines[first])
              /\ \A k \in 1..Len(AddedRows) :
                    /\ input.lines[first + k] # <<"M">>
                    /\ AddedRows[k].vals = input.lines[first + k]

(***************************************************************************)
(* Properties of Spec: statements of other kinds.                          *)
(***************************************************************************)
\* The kind of the statements of the dump that processStatements has no case
\* for.
OtherKind == "SelectStmt"

OthersIn(batch) == Len(SelectSeq(batch, LAMBDA n : n.kind = OtherKind))

SkipCount(c, tag) == MapGet(c.Statement, tag, ZeroStat).Skip

ErrorCount(c, tag) == MapGet(c.Statement, tag, ZeroStat).Error

\* C16 (as claimed): once a batch has gone through processStatements, in
\* schema mode or in data mode, the skipped tally of the other kind has grown
\* by one for every statement of that kind in the batch and its error tally has
\* not changed; a batch of such statements only leaves the source schema and
\* the row counters as they were.
C16_OtherKindsSkippedOnce ==
    pc \in {"loop", "copy", "insert"} =>
        /\ SkipCount(conv, OtherKind) = SkipCount(prev, OtherKind) + OthersIn(stmts)
        /\ ErrorCount(conv, OtherKind) = ErrorCount(prev, OtherKind)
        /\ OthersIn(stmts) = Len(stmts) =>
              /\ conv.SrcSchema = prev.SrcSchema
              /\ conv.Rows = prev.Rows
              /\ conv.BadRows = prev.BadRows

(***************************************************************************)
(* Properties of SpecSchema: statements that are skipped.                  *)
(***************************************************************************)
\* The last statement was a SET of a variable other than the time zone.
LastSetsOtherVariable == last.kind = "VariableSetStmt" /\ last.Name # "timezone"

\* C17 (as claimed): in schema mode a session-variable-set statement for a
\* variable other than the time zone is counted as skipped under the tag of
\* its kind, as every statement is that does not change the schema state.
C17_OtherSetIsSkipped ==
    LastSetsOtherVariable =>
        SkipCount(conv, "VariableSetStmt") = SkipCount(prev, "VariableSetStmt") + 1

InheritedMsgs(c) == Len(SelectSeq(c.Unexpected, LAMBDA m : m = "Found inherited table"))

\* C18: a create-table statement that declares inheritance adds one to the
\* skipped tally and one diagnostic, and the source schema is as it was before
\* the statement: no entry is created, and none is changed.
C18_InheritedTableSkipped ==
    (last.kind = "CreateStmt" /\ last.InhRelations > 0) =>
        /\ SkipCount(conv, "CreateStmt") = SkipCount(prev, "CreateStmt") + 1
        /\ Len(conv.Unexpected) = Len(prev.Unexpected) + 1
        /\ InheritedMsgs(conv) = InheritedMsgs(prev) + 1
        /\ conv.SrcSchema = prev.SrcSchema
        /\ SchemaCount(conv, "CreateStmt") = SchemaCount(prev, "CreateStmt")
        /\ ErrorCount(conv, "CreateStmt") = ErrorCount(prev, "CreateStmt")

\* The inheriting table was the first statement: the schema has no table.
C18_Witness ==
    /\ last = CreateInherited
    /\ nsteps = 1
    /\ conv.SrcSchema = EmptyMap
    /\ SkipCount(conv, "CreateStmt") = 1

(***************************************************************************)
(* Properties of Spec: statements on tables the source schema has not.     *)
(***************************************************************************)
\* The batch is one insert or copy statement on a table without an entry in
\* the source schema, and it has gone through processStatements.
UnknownTableBatch(kind) ==
    /\ pc \in {"loop", "copy", "insert"}
    /\ Len(stmts) = 1
    /\ stmts[1].kind = kind
    /\ getTableName(stmts[1].Relation).name \notin DOMAIN prev.SrcSchema

SkippedWithoutRows(kind) ==
    /\ SkipCount(conv, kind) = SkipCount(prev, kind) + 1
    /\ conv.Rows = prev.Rows
    /\ conv.BadRows = prev.BadRows
    /\ conv.DataRows = prev.DataRows

\* C19 (as claimed): an insert or a copy statement on a table without an entry
\* in the source schema is tallied as skipped, and neither the statement nor
\* its rows change a row counter or a bad-row counter or reach the Data Row
\* Converter, in schema mode and in data mode.
C19_UnknownTableRowsDropped ==
    /\ UnknownTableBatch("InsertStmt") => SkippedWithoutRows("InsertStmt")
    /\ UnknownTableBatch("CopyStmt") => SkippedWithoutRows("CopyStmt")

\* The last statement was an alter-table statement on a table that had no
\* entry in the source schema.
LastAltersUnknownTable ==
    /\ last.kind = "AlterTableStmt"
    /\ ~last.Relation.nil
    /\ getTableName(last.Relation).name \notin DOMAIN prev.SrcSchema

\* C20: an alter-table statement on a table without an entry in the source
\* schema adds one to the skipped tally of its kind and changes nothing else:
\* no other tally (none of its sub-commands is applied or counted, no error is
\* counted), no diagnostic, and the source schema is as it was, without an
\* entry for the table.
C20_AlterOnUnknownTableSkipped ==
    LastAltersUnknownTable =>
        /\ SkipCount(conv, "AlterTableStmt") = SkipCount(prev, "AlterTableStmt") + 1
        /\ ErrorCount(conv, "AlterTableStmt") = ErrorCount(prev, "AlterTableStmt")
        /\ \A tag \in (DOMAIN conv.Statement \cup DOMAIN prev.Statement) \ {"AlterTableStmt"} :
              MapGet(conv.Statement, tag, ZeroStat) = MapGet(prev.Statement, tag, ZeroStat)
        /\ conv.SrcSchema = prev.SrcSchema
        /\ conv.Unexpected = prev.Unexpected

\* ALTER TABLE t ADD PRIMARY KEY (b, a) came before any CREATE TABLE t.
C20_Witness ==
    /\ LastAltersUnknownTable
    /\ last = AlterT(RelT, <<AddConstraint(PrimaryKeyCon(<<Str("b"), Str("a")>>))>>)
    /\ conv.SrcSchema = EmptyMap
    /\ SkipCount(conv, "AlterTableStmt") = 1

(***************************************************************************)
(* Properties of SpecSchema: sub-commands, indexes, keys and columns.      *)
(***************************************************************************)
\* The last statement was an alter-table statement on a table of the source
\* schema.
LastAltersKnownTable ==
    /\ last.kind = "AlterTableStmt"
    /\ ~last.Relation.nil
    /\ getTableName(last.Relation).name \in DOMAIN prev.SrcSchema

IsSetNotNull(a) == a.isCmd /\ a.Subtype = "AT_SetNotNull" /\ a.Name # ""

IsAddConstraint(a) == a.isCmd /\ a.Subtype = "AT_AddConstraint" /\ a.Def = "Constraint"

\* The sub-commands that are applied, in order; the others are skipped.
AppliedCmds(cmds) == SelectSeq(cmds, LAMBDA a : IsSetNotNull(a) \/ IsAddConstraint(a))

SchemaTotal(c) == SumStat(c.Statement, DOMAIN c.Statement, "Schema")

\* C21: of the sub-commands of an alter-table statement on a known table,
\* every SET NOT NULL on a named column and every ADD of a constraint is
\* applied and tallied, in order, and every other one is tallied as skipped:
\* the schema afterwards is what the applied sub-commands alone make of it, so
\* a skipped sub-command changes nothing and stops nothing after it.
C21_SubCommandsIndependent ==
    LastAltersKnownTable =>
        LET table == getTableName(last.Relation).name
            applied == AppliedCmds(last.Cmds)
        IN  /\ Skipped(conv) = Skipped(prev) + Len(last.Cmds) - Len(applied)
            /\ SchemaTotal(conv) = SchemaTotal(prev) + Len(applied)
            /\ conv.SrcSchema =
                  processAlterTableStmt(prev, [last EXCEPT !.Cmds = applied]).SrcSchema
            /\ applied = <<>> => conv.SrcSchema = prev.SrcSchema
            /\ \A i \in 1..Len(applied) :
                  IsSetNotNull(applied[i]) =>
                      conv.SrcSchema[table].ColDefs[applied[i].Name].NotNull
            /\ \A i \in 1..Len(applied) :
                  (IsAddConstraint(applied[i]) /\ applied[i].con.Contype = "UNIQUE") =>
                      Len(conv.SrcSchema[table].Indexes) > Len(prev.SrcSchema[table].Indexes)

\* Two skipped sub-commands, each followed by one that was applied: column b
\* was nullable and is not-null now, and the unique index is there.
C21_Witness ==
    /\ LastAltersKnownTable
    /\ last.Cmds = <<NotACmd, AddConstraint(UniqueCon), AddOtherDef, SetNotNull("b")>>
    /\ ~prev.SrcSchema[TableT].ColDefs["b"].NotNull
    /\ conv.SrcSchema[TableT].ColDefs["b"].NotNull
    /\ Len(conv.SrcSchema[TableT].Indexes) = Len(prev.SrcSchema[TableT].Indexes) + 1
    /\ Skipped(conv) = Skipped(prev) + 2

\* The index a create-index statement of named index elements declares.
DeclaredIndex(n) ==
    [Name |-> n.Idxname, Unique |-> n.Unique,
     Keys |-> [i \in 1..Len(n.IndexParams) |->
                 [Column |-> n.IndexParams[i].Name, Desc |-> n.IndexParams[i].Desc]]]

LastIndexesTable == last.kind = "IndexStmt" /\ ~last.Relation.nil

\* C22: a create-index statement on a table of the source schema appends its
\* index (name, uniqueness, keys in order with their direction) to the end of
\* the table's index list and changes nothing else of the schema; on a table
\* that is not in the source schema it adds one skip and one diagnostic, no
\* error, and the schema is unchanged.
C22_IndexAppendedOrSkipped ==
    LastIndexesTable =>
        LET table == getTableName(last.Relation).name IN
        IF table \in DOMAIN prev.SrcSchema
        THEN /\ conv.SrcSchema =
                   [prev.SrcSchema EXCEPT
                       ![table].Indexes = Append(@, DeclaredIndex(last))]
             /\ ErrorCount(conv, "IndexStmt") = ErrorCount(prev, "IndexStmt")
             /\ SkipCount(conv, "IndexStmt") = SkipCount(prev, "IndexStmt")
        ELSE /\ conv.SrcSchema = prev.SrcSchema
             /\ SkipCount(conv, "IndexStmt") = SkipCount(prev, "IndexStmt") + 1
             /\ ErrorCount(conv, "IndexStmt") = ErrorCount(prev, "IndexStmt")
             /\ Len(conv.Unexpected) = Len(prev.Unexpected) + 1

\* The unique index on (b, a DESC) went behind an index the table had.
C22_Witness ==
    /\ last = UniqueIndexOnT
    /\ HasT(prev)
    /\ Len(prev.SrcSchema[TableT].Indexes) = 1
    /\ Len(conv.SrcSchema[TableT].Indexes) = 2
    /\ conv.SrcSchema[TableT].Indexes[2].Keys
          = <<[Column |-> "b", Desc |-> FALSE], [Column |-> "a", Desc |-> TRUE]>>

StringsOfNodes(nodes) == [i \in 1..Len(nodes) |-> nodes[i].s]

\* The foreign-key entry of a FOREIGN KEY constraint node on columns cols.
DeclaredForeignKey(con, cols) ==
    [Name |-> con.Conname, Columns |-> cols,
     ReferTable |-> getTableName(con.Pktable).name,
     ReferColumns |-> StringsOfNodes(con.PkAttrs)]

\* The foreign keys the sub-commands of an alter-table statement add, in order.
RECURSIVE CmdForeignKeys(_)
CmdForeignKeys(cmds) ==
    IF cmds = <<>> THEN <<>>
    ELSE (IF IsAddConstraint(Head(cmds)) /\ Head(cmds).con.Contype = "FOREIGN"
          THEN <<DeclaredForeignKey(Head(cmds).con, StringsOfNodes(Head(cmds).con.FkAttrs))>>
          ELSE <<>>)
         \o CmdForeignKeys(Tail(cmds))

ForeignKeysOf(c) == c.SrcSchema[TableT].ForeignKeys

\* C23: an alter-table statement on t leaves the foreign keys t had where they
\* were and puts one entry behind them for each foreign-key constraint it
\* adds, in the order of the statement, whatever other constraints it applies;
\* a create-index or any other statement that does not create t leaves the
\* list as it was.
C23_ForeignKeysAccumulate ==
    (HasT(prev) /\ last.kind # "CreateStmt") =>
        /\ HasT(conv)
        /\ ForeignKeysOf(conv) =
              ForeignKeysOf(prev)
              \o (IF LastAltersKnownTable /\ getTableName(last.Relation).name = TableT
                  THEN CmdForeignKeys(last.Cmds) ELSE <<>>)

\* Two foreign keys went behind the one the table had, in the order of the
\* statement.
C23_Witness ==
    /\ HasT(prev)
    /\ last = AlterT(RelT, <<AddConstraint(ForeignKeyCon2), AddConstraint(ForeignKeyCon)>>)
    /\ Len(ForeignKeysOf(prev)) = 1
    /\ Len(ForeignKeysOf(conv)) = 3
    /\ ForeignKeysOf(conv)[2] =
          [Name |-> "fk2", Columns |-> <<"b", "a">>, ReferTable |-> "s.v",
           ReferColumns |-> <<"y", "x">>]
    /\ ForeignKeysOf(conv)[3].Name = "fk"

\* The last statement was an alter-table statement on t, a table of the
\* source schema, that adds unique constraints and nothing else.
LastAddsUniqueOnly ==
    /\ LastAltersKnownTable
    /\ getTableName(last.Relation).name = TableT
    /\ last.Cmds # <<>>
    /\ \A i \in 1..Len(last.Cmds) :
          IsAddConstraint(last.Cmds[i]) /\ last.Cmds[i].con.Contype = "UNIQUE"

\* C24 (as claimed): every unique constraint applied puts one index behind
\* those the table had, with the uniqueness flag set, the columns of the
\* constraint as keys in order and a name that is not empty (the name of the
\* constraint when it has one); the column definitions and the primary key of
\* the table are as before.
C24_UniqueBecomesNamedIndex ==
    LastAddsUniqueOnly =>
        LET old == prev.SrcSchema[TableT]
            new == conv.SrcSchema[TableT]
        IN  /\ Len(new.Indexes) = Len(old.Indexes) + Len(last.Cmds)
            /\ SubSeq(new.Indexes, 1, Len(old.Indexes)) = old.Indexes
            /\ \A i \in 1..Len(last.Cmds) :
                  LET idx == new.Indexes[Len(old.Indexes) + i]
                      con == last.Cmds[i].con
                  IN  /\ idx.Unique
                      /\ idx.Keys = [j \in 1..Len(con.Keys) |->
                                       [Column |-> con.Keys[j].s, Desc |-> FALSE]]
                      /\ idx.Name # ""
                      /\ con.Conname # "" => idx.Name = con.Conname
            /\ new.ColDefs = old.ColDefs
            /\ new.PrimaryKeys = old.PrimaryKeys

\* The last statement was a create-table statement that stored its table.
LastCreatedTable ==
    /\ last.kind = "CreateStmt"
    /\ SchemaCount(conv, "CreateStmt") = SchemaCount(prev, "CreateStmt") + 1

\* Column col of create-table statement n carries an inline constraint of one
\* of the kinds.
InlineOn(n, col, kinds) ==
    \E i \in 1..Len(n.TableElts) :
        /\ n.TableElts[i].elt = "ColumnDef"
        /\ n.TableElts[i].Colname = col
        /\ \E j \in 1..Len(n.TableElts[i].Constraints) :
              n.TableElts[i].Constraints[j].Contype \in kinds

\* A table-level constraint of n of one of the kinds lists column col.
TableLevelOn(n, col, kinds) ==
    \E i \in 1..Len(n.TableElts) :
        /\ n.TableElts[i].elt = "Constraint"
        /\ n.TableElts[i].con.Contype \in kinds
        /\ \E j \in 1..Len(n.TableElts[i].con.Keys) : n.TableElts[i].con.Keys[j].s = col

\* The column lists of the constraints of one kind that the table elements
\* declare, in the order of the statement: an inline constraint stands for the
\* column that carries it, a table-level constraint for the columns it lists.
RECURSIVE DeclaredCols(_, _)
DeclaredCols(elts, kind) ==
    IF elts = <<>> THEN <<>>
    ELSE LET te == Head(elts)
             here == IF te.elt = "ColumnDef"
                     THEN [i \in 1..Len(SelectSeq(te.Constraints,
                                                  LAMBDA d : d.Contype = kind))
                             |-> <<te.Colname>>]
                     ELSE IF te.elt = "Constraint" /\ te.con.Contype = kind
                     THEN <<StringsOfNodes(IF kind = "FOREIGN" THEN te.con.FkAttrs
                                           ELSE te.con.Keys)>>
                     ELSE <<>>
         IN  here \o DeclaredCols(Tail(elts), kind)

KeyColumns(keys) == [j \in 1..Len(keys) |-> keys[j].Column]

\* C25: a constraint declared inline on a column definition is applied to the
\* column that carries it and to no other: a column is not null exactly when it
\* carries (or a table-level key lists) a not-null or primary-key constraint, its
\* default is marked ignored exactly when it carries a default, and every
\* foreign key, unique index and primary key that comes from an inline
\* constraint has the carrying column as its only column.
C25_InlineConstraintOnOwningColumn ==
    LastCreatedTable =>
        LET ct == conv.SrcSchema[getTableName(last.Relation).name]
            pks == DeclaredCols(last.TableElts, "PRIMARY")
        IN  /\ \A col \in DOMAIN ct.ColDefs :
                  /\ ct.ColDefs[col].NotNull =
                        (InlineOn(last, col, {"NOTNULL", "PRIMARY"})
                         \/ TableLevelOn(last, col, {"NOTNULL", "PRIMARY"}))
                  /\ ct.ColDefs[col].IgnoredDefault =
                        (InlineOn(last, col, {"DEFAULT"})
                         \/ TableLevelOn(last, col, {"DEFAULT"}))
            /\ [i \in 1..Len(ct.ForeignKeys) |-> ct.ForeignKeys[i].Columns]
                  = DeclaredCols(last.TableElts, "FOREIGN")
            /\ [i \in 1..Len(ct.Indexes) |-> KeyColumns(ct.Indexes[i].Keys)]
                  = DeclaredCols(last.TableElts, "UNIQUE")
            /\ KeyColumns(ct.PrimaryKeys) = IF pks = <<>> THEN <<>> ELSE pks[Len(pks)]

\* CREATE TABLE t (a bigint REFERENCES u (x), b bigint UNIQUE DEFAULT 0), the
\* unique constraint of b arriving with a key list of its own: the foreign key
\* is on a alone, the unique index on b alone, and only b has its default
\* marked.
C25_Witness ==
    /\ LastCreatedTable
    /\ last = CreateT(<<InlineForeign>>, <<UniqueCon, DefaultCon>>, <<>>)
    /\ conv.SrcSchema[TableT].ForeignKeys[1].Columns = <<"a">>
    /\ KeyColumns(conv.SrcSchema[TableT].Indexes[1].Keys) = <<"b">>
    /\ conv.SrcSchema[TableT].ColDefs["b"].IgnoredDefault
    /\ ~conv.SrcSchema[TableT].ColDefs["a"].IgnoredDefault
    /\ "ColumnDef constraint has keys" \in
          {conv.Unexpected[i] : i \in 1..Len(conv.Unexpected)}

(***************************************************************************)
(* SpecBatch: processPgDump, one iteration of its loop per step, each      *)
(* chunk parsing to one statement.  The schema pass runs on a fresh Conv;  *)
(* the data pass follows on the same Conv.  A copy statement is followed   *)
(* by the lines of its copy block.                                         *)
(***************************************************************************)
\* The most iterations of the loop.
MaxBatches == 3

\* CREATE TABLE rel (names[1] bigint, names[2] bigint, ...)
CreateCols(rel, names, tableElts) ==
    [Stmt("CreateStmt", rel) EXCEPT
        !.TableElts = [i \in 1..Len(names) |-> ColumnDef(names[i], Int8, <<>>)]
                      \o tableElts]

BatchCreates ==
    { CreateCols(RelT, <<"a", "b">>, <<>>),
      CreateCols(RelT, <<"b", "a">>, <<>>),
      CreateCols(RelT, <<"b", "c", "a">>,
                 <<ConstraintElt(PrimaryKeyCon(<<Str("a"), Str("b")>>))>>) }

BatchAlters ==
    { AlterT(RelT, <<SetNotNull("b")>>),
      AlterT(RelT, <<AddConstraint(PrimaryKeyCon(<<Str("b"), Str("a")>>))>>),
      AlterT(RelT, <<DropColumn>>),
      AlterT(RelT, <<AddConstraint(UniqueCon)>>) }

InsertInto(rel, cols) ==
    [Stmt("InsertStmt", rel) EXCEPT
        !.Cols = [i \in 1..Len(cols) |-> ResTarget(cols[i])],
        !.Rows = << <<IntegerVal(1), StringVal("x")>>, <<IntegerVal(2)>> >>]

BatchInserts ==
    { InsertInto(RelT, cols) : cols \in {<<>>, <<"b", "a">>, <<"b">>} }
    \cup { InsertInto(RelU, <<>>) }

\* The lines after a copy statement: data lines up to the end-of-data marker.
CopyBlocks == { << <<"M">> >>, << <<"D", "D">>, <<"M">> >> }

\* processCopyBlock, lines being what the reader holds.
RECURSIVE processCopyBlockLines(_, _, _, _)

copyBlockNext(r, srcTable, srcCols, lines) ==
    IF r.ret = "return" THEN r.conv
    ELSE processCopyBlockLines(r.conv, srcTable, srcCols, Tail(lines))

processCopyBlockLines(c, srcTable, srcCols, lines) ==
    IF lines = <<>>
    THEN processCopyBlock(c, srcTable, srcCols, <<>>, FALSE, TRUE).conv
    ELSE copyBlockNext(processCopyBlock(c, srcTable, srcCols, Head(lines), TRUE, FALSE),
                       srcTable, srcCols, lines)

\* processPgDump lines 69-86, r being what processStatements returned.
afterStatements(r, lines) ==
    IF r.ci.nil THEN r.conv
    ELSE IF r.ci.stmt = "copyFrom"
    THEN processCopyBlockLines(r.conv, r.ci.table, r.ci.cols, lines)
    ELSE processInsertRows(r.conv, r.ci, r.ci.rows)

InitBatch ==
    /\ conv = MakeConv
    /\ pc = "batch"
    /\ last = NoStmt
    /\ prev = MakeConv
    /\ nsteps = 0
    /\ pkSeen = 0
    /\ DumpIdle
    /\ EvalIdle

\* One iteration of the loop of processPgDump: the chunk parses to statement n
\* and lines follow it.
Batch(n, lines) ==
    /\ pc = "batch"
    /\ nsteps < MaxBatches
    /\ conv' = afterStatements(processStatements(conv, <<n>>), lines)
    /\ prev' = conv
    /\ last' = n
    /\ nsteps' = nsteps + 1
    /\ UNCHANGED <<pc, pkSeen>>
    /\ UNCHANGED dumpVars
    /\ UNCHANGED evalVars

BatchCreate == \E n \in BatchCreates : Batch(n, <<>>)

BatchAlter == \E n \in BatchAlters : Batch(n, <<>>)

BatchIndex == Batch(UniqueIndexOnT, <<>>)

BatchSets ==
    { SetStmt("timezone", <<AConst(Str(tz))>>) : tz \in {"UTC", "America/New_York"} }

BatchSet == \E n \in BatchSets : Batch(n, <<>>)

BatchInsert == \E n \in BatchInserts : Batch(n, <<>>)

BatchCopy == \E lines \in CopyBlocks : Batch(CopyT, lines)

\* The schema pass is over: conv.SetDataMode(), and the dump is read again.
StartDataPass ==
    /\ pc = "batch"
    /\ SchemaMode(conv)
    /\ conv' = SetDataMode(conv)
    /\ prev' = conv
    /\ last' = NoStmt
    /\ UNCHANGED <<pc, nsteps, pkSeen>>
    /\ UNCHANGED dumpVars
    /\ UNCHANGED evalVars

NextBatch ==
    \/ BatchCreate \/ BatchAlter \/ BatchIndex \/ BatchSet
    \/ BatchInsert \/ BatchCopy \/ StartDataPass

SpecBatch == InitBatch /\ [][NextBatch]_vars

\* The last statement was an insert, in data mode, into a table of the source
\* schema.
LastInsertedInDataMode ==
    /\ last.kind = "InsertStmt"
    /\ DataMode(prev)
    /\ ~last.Relation.nil
    /\ getTableName(last.Relation).name \in DOMAIN prev.SrcSchema

\* The column names an insert statement lists.
NamedCols(n) == [i \in 1..Len(n.Cols) |-> n.Cols[i].Name]

\* C26: in data mode every row of an insert statement goes to the Data Row
\* Converter with the column list of the statement when it gives one, and with
\* the column-name sequence the source schema has for the table, in its order,
\* when the statement names no column.
C26_InsertColumns ==
    LastInsertedInDataMode =>
        LET t == getTableName(last.Relation).name
            cols == IF NamedCols(last) # <<>> THEN NamedCols(last)
                    ELSE prev.SrcSchema[t].ColNames
        IN  AddedRows =
               [i \in 1..Len(last.Rows) |->
                   [table |-> t, cols |-> cols,
                    vals |-> [j \in 1..Len(last.Rows[i]) |-> ValueText(last.Rows[i][j])]]]

\* INSERT INTO t VALUES (1, 'x'), (2) after CREATE TABLE t (b, c, a): both rows
\* went with the columns b, c, a.
C26_Witness ==
    /\ LastInsertedInDataMode
    /\ last.Cols = <<>>
    /\ Len(AddedRows) = 2
    /\ AddedRows[1].cols = <<"b", "c", "a">>
    /\ AddedRows[2].cols = <<"b", "c", "a">>

\* The columns a create-table statement declares, in its order.
DeclaredColNames(n) ==
    LET defs == SelectSeq(n.TableElts, LAMBDA te : te.elt = "ColumnDef")
    IN  [i \in 1..Len(defs) |-> defs[i].Colname]

\* C27: the column-name sequence of a table is the order in which its
\* create-table statement declared the columns, and no alter-table,
\* create-index, insert, copy or set statement adds to it, removes from it or
\* reorders it.
C27_ColNamesAreDeclarationOrder ==
    /\ LastCreatedTable =>
          conv.SrcSchema[getTableName(last.Relation).name].ColNames
             = DeclaredColNames(last)
    /\ \A t \in DOMAIN prev.SrcSchema :
          (~LastCreatedTable \/ getTableName(last.Relation).name # t) =>
              /\ t \in DOMAIN conv.SrcSchema
              /\ conv.SrcSchema[t].ColNames = prev.SrcSchema[t].ColNames

\* ALTER TABLE t DROP COLUMN b after CREATE TABLE t (b, c, a): the sequence is
\* still b, c, a.
C27_Witness ==
    /\ last = AlterT(RelT, <<DropColumn>>)
    /\ HasT(prev)
    /\ conv.SrcSchema[TableT].ColNames = <<"b", "c", "a">>

(***************************************************************************)
(* SpecName: getTableName applied to range variables whose components are  *)
(* drawn from the sets below; every call is recorded with what it          *)
(* returned.                                                               *)
(***************************************************************************)
\* The most calls recorded.
MaxNames == 2

RangeVars ==
    { RangeVar(cat, sch, rel) :
        cat \in {"", "c", "public"},
        sch \in {"", "public", "s", "c"},
        rel \in {"", "t", "public", "s"} }

InitName ==
    /\ conv = MakeConv
    /\ pc = "name"
    /\ SchemaIdle
    /\ DumpIdle
    /\ EvalIdle

GetTableName ==
    /\ pc = "name"
    /\ Len(calls) < MaxNames
    /\ \E n \in RangeVars :
          calls' = Append(calls, [n |-> n, name |-> getTableName(n).name,
                                  err |-> getTableName(n).err])
    /\ UNCHANGED <<conv, pc, last, prev, nsteps, pkSeen, cmd, written, exit>>
    /\ UNCHANGED dumpVars

NextName == GetTableName

SpecName == InitName /\ [][NextName]_vars

\* The components of a range variable that make up its name: catalog, schema
\* and relation, those that are empty left out, and the schema left out when it
\* is public.
NameParts(n) ==
    SelectSeq(<<n.Catalogname, IF n.Schemaname = "public" THEN "" ELSE n.Schemaname,
                n.Relname>>,
              LAMBDA x : x # "")

Dotted(parts) ==
    IF Len(parts) = 1 THEN parts[1]
    ELSE IF Len(parts) = 2 THEN parts[1] \o "." \o parts[2]
    ELSE parts[1] \o "." \o parts[2] \o "." \o parts[3]

\* C28: getTableName fails, and returns no name, exactly when the relation name
\* is empty; otherwise it returns the non-empty components among catalog,
\* schema and relation joined with ".", in that order, without the schema
\* when it is public.
C28_TableNameOfComponents ==
    \A i \in 1..Len(calls) :
        LET k == calls[i] IN
        /\ k.err <=> (k.n.Relname = "")
        /\ k.err => k.name = ""
        /\ ~k.err => k.name = Dotted(NameParts(k.n))

\* c.public.t is t in schema public of catalog c and comes out as c.t; a range
\* variable with catalog and schema but no relation name fails.
C28_Witness ==
    /\ Len(calls) = 2
    /\ calls[1].n = RangeVar("c", "public", "t") /\ calls[1].name = "c.t"
    /\ calls[2].n = RangeVar("c", "s", "") /\ calls[2].err

(***************************************************************************)
(* SpecConv: the mode and statement-tally calls of Conv, in any order on a *)
(* Conv fresh from MakeConv; every call is recorded.                       *)
(***************************************************************************)
\* The most calls made.
MaxCalls == 4

ConvTags == {"CreateStmt", "InsertStmt"}

InitConv ==
    /\ conv = MakeConv
    /\ pc = "conv"
    /\ SchemaIdle
    /\ DumpIdle
    /\ EvalIdle

\* One call fn(tag) that leaves conv as c.
ConvCall(fn, tag, c) ==
    /\ pc = "conv"
    /\ Len(calls) < MaxCalls
    /\ conv' = c
    /\ prev' = conv
    /\ calls' = Append(calls, [fn |-> fn, tag |-> tag])
    /\ UNCHANGED <<pc, last, nsteps, pkSeen, cmd, written, exit>>
    /\ UNCHANGED dumpVars

CallSetSchemaMode == ConvCall("SetSchemaMode", "", SetSchemaMode(conv))

CallSetDataMode == ConvCall("SetDataMode", "", SetDataMode(conv))

CallErrorInStatement ==
    \E tag \in ConvTags : ConvCall("ErrorInStatement", tag, ErrorInStatement(conv, tag))

CallSchemaStatement ==
    \E tag \in ConvTags : ConvCall("SchemaStatement", tag, SchemaStatement(conv, tag))

CallDataStatement ==
    \E tag \in ConvTags : ConvCall("DataStatement", tag, DataStatement(conv, tag))

CallSkipStatement ==
    \E tag \in ConvTags : ConvCall("SkipStatement", tag, SkipStatement(conv, tag))

ConvMsgs == {"expected-the-unexpected", "again"}

CallUnexpected ==
    \E msg \in ConvMsgs : ConvCall("Unexpected", msg, Unexpected(conv, msg))

NextConv ==
    \/ CallSetSchemaMode \/ CallSetDataMode
    \/ CallErrorInStatement \/ CallSchemaStatement
    \/ CallDataStatement \/ CallSkipStatement
    \/ CallUnexpected

SpecConv == InitConv /\ [][NextConv]_vars

ModeCalls == SelectSeq(calls, LAMBDA k : k.fn \in {"SetSchemaMode", "SetDataMode"})

\* C29: after any sequence of SetSchemaMode and SetDataMode calls exactly one of
\* SchemaMode() and DataMode() is true, the one the most recent call selected.
C29_ModesExclusiveLastCallWins ==
    /\ SchemaMode(conv) # DataMode(conv)
    /\ ModeCalls # <<>> =>
          /\ SchemaMode(conv) <=> (ModeCalls[Len(ModeCalls)].fn = "SetSchemaMode")
          /\ DataMode(conv) <=> (ModeCalls[Len(ModeCalls)].fn = "SetDataMode")

\* SetDataMode, SetSchemaMode, SetDataMode, SetDataMode: data mode.
C29_Witness ==
    /\ [i \in 1..Len(calls) |-> calls[i].fn]
          = <<"SetDataMode", "SetSchemaMode", "SetDataMode", "SetDataMode">>
    /\ DataMode(conv)
    /\ SchemaMode(prev) = FALSE

TallyOf == [ErrorInStatement |-> "Error", SchemaStatement |-> "Schema",
            DataStatement |-> "Data", SkipStatement |-> "Skip"]

TallyCalls == SelectSeq(calls, LAMBDA k : k.fn \in DOMAIN TallyOf)

Tally(c, field) == SumStat(c.Statement, DOMAIN c.Statement, field)

\* C30: after any sequence of ErrorInStatement, SchemaStatement, DataStatement
\* and SkipStatement calls Statements() is the number of those calls and
\* StatementErrors() the number of ErrorInStatement calls, and each call adds
\* one to the tally of its kind and leaves the other three as they were.
C30_TalliesCountCalls ==
    /\ Statements(conv) = Len(TallyCalls)
    /\ StatementErrors(conv)
          = Len(SelectSeq(calls, LAMBDA k : k.fn = "ErrorInStatement"))
    /\ (calls # <<>> /\ calls[Len(calls)].fn \in DOMAIN TallyOf) =>
          \A field \in {"Error", "Schema", "Data", "Skip"} :
              Tally(conv, field) =
                 Tally(prev, field)
                 + (IF TallyOf[calls[Len(calls)].fn] = field THEN 1 ELSE 0)

\* The four calls of the test, one of them twice over two tags.
C30_Witness ==
    /\ Len(calls) = 4
    /\ {calls[i].fn : i \in 1..4} = {"ErrorInStatement", "SchemaStatement", "SkipStatement"}
    /\ calls[4] = [fn |-> "ErrorInStatement", tag |-> "InsertStmt"]
    /\ calls[1] = [fn |-> "ErrorInStatement", tag |-> "CreateStmt"]
    /\ Statements(conv) = 4
    /\ StatementErrors(conv) = 2

UnexpectedCalls == SelectSeq(calls, LAMBDA k : k.fn = "Unexpected")

MaxRows == 3

\* Two rows that fail (a value short, a value that does not convert) and one
\* that converts.
SampleRows ==
    { [table |-> "t", cols |-> <<"a", "b">>, vals |-> <<"1">>],
      [table |-> "u", cols |-> <<"a">>, vals |-> <<BadValue>>],
      [table |-> "t", cols |-> <<"a", "b">>, vals |-> <<"1", "x">>] }

InitSample ==
    /\ \E k \in 0..SampleCapacity :
          conv = [SetDataMode(MakeConv) EXCEPT !.sampleBadRows.cap = k]
    /\ pc = "sample"
    /\ SchemaIdle
    /\ DumpIdle
    /\ EvalIdle

RowArrives ==
    /\ pc = "sample"
    /\ nsteps < MaxRows
    /\ \E r \in SampleRows : conv' = ProcessDataRow(conv, r.table, r.cols, r.vals)
    /\ prev' = conv
    /\ nsteps' = nsteps + 1
    /\ UNCHANGED <<pc, last, pkSeen>>
    /\ UNCHANGED dumpVars
    /\ UNCHANGED evalVars

Sample ==
    /\ pc = "sample"
    /\ nsteps < MaxRows
    /\ \E n \in 0..(SampleCapacity + 1) :
          calls' = Append(calls, [n |-> n, rows |-> SampleBadRows(conv, n),
                                  held |-> conv.sampleBadRows.rows])
    /\ nsteps' = nsteps + 1
    /\ UNCHANGED <<conv, pc, last, prev, pkSeen, cmd, written, exit>>
    /\ UNCHANGED dumpVars

NextSample == RowArrives \/ Sample

SpecSample == InitSample /\ [][NextSample]_vars

\* The rows that failed, in the order in which they arrived.
BadRowsArrived(c) == SelectSeq(c.DataRows, LAMBDA r : IsBadRow(r.cols, r.vals))

\* C32: SampleBadRows(n) returns at most n rows, and all the rows collected
\* when fewer than n were collected; the sample never holds more rows than
\* its capacity: the rows that arrive once it is full are discarded, and the
\* bad-row counter of their table counts them all the same.
C32_BadRowSampleBounded ==
    /\ Len(conv.sampleBadRows.rows) <= conv.sampleBadRows.cap
    /\ conv.sampleBadRows.rows =
          SubSeq(BadRowsArrived(conv), 1,
                 Min(conv.sampleBadRows.cap, Len(BadRowsArrived(conv))))
    /\ \A t \in {"t", "u"} :
          MapGet(conv.BadRows, t, 0) =
             Len(SelectSeq(BadRowsArrived(conv), LAMBDA r : r.table = t))
    /\ \A i \in 1..Len(calls) :
          /\ Len(calls[i].rows) <= calls[i].n
          /\ Len(calls[i].held) < calls[i].n => calls[i].rows = calls[i].held
          /\ Len(calls[i].held) >= calls[i].n =>
                calls[i].rows = SubSeq(calls[i].held, 1, calls[i].n)

\* A sample of capacity 1 that took the first bad row and discarded the second,
\* which the counter of its table still counted; SampleBadRows(2) returned the
\* one row held.
C32_Witness ==
    /\ conv.sampleBadRows.cap = 1
    /\ Len(BadRowsArrived(conv)) = 2
    /\ Len(conv.sampleBadRows.rows) = 1
    /\ conv.sampleBadRows.rows[1].table = "t"
    /\ MapGet(conv.BadRows, "u", 0) = 1
    /\ Len(calls) = 1 /\ calls[1].n = 2 /\ Len(calls[1].rows) = 1

(***************************************************************************)
(* SpecTwice: schema-only conversion run twice over one input, each run on *)
(* a Conv of its own (conv for the first, prev for the second).  A run     *)
(* sends the statements of the input through processStatements one per     *)
(* chunk, derives the target schema and finalizes it; the order in which   *)
(* the finalizer meets the tables is that of a map iteration and is chosen *)
(* anew in each run.  The derivation of the target schema stands for code  *)
(* that is not part of the sources at hand: a table per source table with  *)
(* its columns in order and its primary key.                               *)
(***************************************************************************)
\* The most statements of the input.
MaxTwice == 3

TwiceStmts ==
    { CreateCols(RelT, <<"a", "b">>, <<>>),
      CreateCols(RelT, <<"b", "a">>, <<ConstraintElt(PrimaryKeyCon(<<Str("a")>>))>>),
      CreateCols(RelU, <<"synth_id", "a">>, <<>>),
      AlterT(RelT, <<AddConstraint(PrimaryKeyCon(<<Str("b"), Str("a")>>))>>),
      AlterT(RelT, <<AddConstraint(ForeignKeyCon2), AddConstraint(ForeignKeyCon)>>),
      UniqueIndexOnT }

\* The orders in which a map iteration can yield the keys S.
Orders(S) ==
    { q \in [1..Cardinality(S) -> S] : \A i, j \in 1..Cardinality(S) : q[i] = q[j] => i = j }

schemaToTarget(c) ==
    [c EXCEPT !.SpSchema =
        [t \in DOMAIN c.SrcSchema |->
            CreateTable(t, c.SrcSchema[t].ColNames,
                        [i \in 1..Len(c.SrcSchema[t].PrimaryKeys) |->
                            IndexKey(c.SrcSchema[t].PrimaryKeys[i].Column)])]]

InitTwice ==
    /\ conv = MakeConv
    /\ prev = MakeConv
    /\ stmts \in SeqsUpTo(TwiceStmts, MaxTwice)
    /\ pos = 0
    /\ nsteps = 0
    /\ pc = <<"run", "run">>
    /\ last = NoStmt
    /\ pkSeen = 0
    /\ input = [lines |-> <<>>, residual |-> <<>>]
    /\ eof = FALSE
    /\ buf = <<>>
    /\ ci = NoCi
    /\ err = FALSE
    /\ nParsed = 0
    /\ nFailed = 0
    /\ EvalIdle

\* First run: the next statement of the input.
FirstRunStatement ==
    /\ pc[1] = "run"
    /\ pos < Len(stmts)
    /\ conv' = processStatements(conv, <<stmts[pos + 1]>>).conv
    /\ pos' = pos + 1
    /\ UNCHANGED <<pc, last, prev, nsteps, pkSeen, input, eof, buf, stmts, ci, err,
                   nParsed, nFailed>>
    /\ UNCHANGED evalVars

\* First run: the input is read; target schema and finalizer.
FirstRunFinish ==
    /\ pc[1] = "run"
    /\ pos = Len(stmts)
    /\ \E order \in Orders(DOMAIN conv.SrcSchema) :
          /\ conv' = AddPrimaryKeysInOrder(schemaToTarget(conv), order)
          /\ calls' = Append(calls, [run |-> 1, order |-> order])
    /\ pc' = <<"done", pc[2]>>
    /\ UNCHANGED <<last, prev, nsteps, pkSeen, cmd, written, exit>>
    /\ UNCHANGED dumpVars

SecondRunStatement ==
    /\ pc[2] = "run"
    /\ nsteps < Len(stmts)
    /\ prev' = processStatements(prev, <<stmts[nsteps + 1]>>).conv
    /\ nsteps' = nsteps + 1
    /\ UNCHANGED <<conv, pc, last, pkSeen>>
    /\ UNCHANGED dumpVars
    /\ UNCHANGED evalVars

SecondRunFinish ==
    /\ pc[2] = "run"
    /\ nsteps = Len(stmts)
    /\ \E order \in Orders(DOMAIN prev.SrcSchema) :
          /\ prev' = AddPrimaryKeysInOrder(schemaToTarget(prev), order)
          /\ calls' = Append(calls, [run |-> 2, order |-> order])
    /\ pc' = <<pc[1], "done">>
    /\ UNCHANGED <<conv, last, nsteps, pkSeen, cmd, written, exit>>
    /\ UNCHANGED dumpVars

NextTwice ==
    \/ FirstRunStatement \/ FirstRunFinish
    \/ SecondRunStatement \/ SecondRunFinish

SpecTwice == InitTwice /\ [][NextTwice]_vars

RECURSIVE FirstReturningFrom(_, _)
FirstReturningFrom(batch, i) ==
    IF i > Len(batch) THEN 0
    ELSE IF batch[i].kind \in {"CopyStmt", "InsertStmt"} THEN i
    ELSE FirstReturningFrom(batch, i + 1)

FirstReturning(batch) == FirstReturningFrom(batch, 1)

CopyNotLastMsgs(c) ==
    Len(SelectSeq(c.Unexpected,
                  LAMBDA m : m = "CopyFrom is not the last statement in batch: ignoring following statements"))

\* C34 (as claimed): when statements of a batch stand behind a copy statement
\* they are dropped together with one diagnostic and one statement error of
\* the copy statement; when they stand behind an insert statement they are not
\* dropped without a diagnostic or a statement error to show for it.
C34_NoStatementDroppedSilently ==
    (pc \in {"loop", "copy", "insert"}
     /\ FirstReturning(stmts) # 0 /\ FirstReturning(stmts) < Len(stmts)) =>
        IF stmts[FirstReturning(stmts)].kind = "CopyStmt"
        THEN /\ CopyNotLastMsgs(conv) = CopyNotLastMsgs(prev) + 1
             /\ ErrorCount(conv, "CopyStmt") = ErrorCount(prev, "CopyStmt") + 1
        ELSE \/ Unexpecteds(conv) > Unexpecteds(prev)
             \/ StatementErrors(conv) > StatementErrors(prev)
             \/ Statements(conv) >= Statements(prev) + Len(stmts)

(***************************************************************************)
(* Properties of SpecSchema: column names and column definitions.          *)
(***************************************************************************)
\* C35 (as claimed): for every table of the source schema the columns that
\* have a definition are the columns of its column-name sequence, and no name
\* is in the sequence twice; a constraint that names a column the table does
\* not have creates no definition.
C35_ColDefsMatchColNames ==
    \A t \in DOMAIN conv.SrcSchema :
        LET ct == conv.SrcSchema[t] IN
        /\ DOMAIN ct.ColDefs = ColumnSet(ct.ColNames)
        /\ \A i, j \in 1..Len(ct.ColNames) : ct.ColNames[i] = ct.ColNames[j] => i = j

(***************************************************************************)
(* Properties of SpecBatch: the data pass.                                 *)
(***************************************************************************)
\* C36: in data mode no statement changes the source schema or the time zone:
\* after every statement of the data pass both are as they were before it.
C36_DataModeLeavesSchema ==
    (DataMode(prev) /\ last # NoStmt) =>
        /\ conv.SrcSchema = prev.SrcSchema
        /\ conv.Location = prev.Location

\* In the data pass, ALTER TABLE t ALTER COLUMN b SET NOT NULL on a table whose
\* column b is nullable: it still is.
C36_Witness ==
    /\ DataMode(prev)
    /\ last = AlterT(RelT, <<SetNotNull("b")>>)
    /\ HasT(conv)
    /\ ~conv.SrcSchema[TableT].ColDefs["b"].NotNull

(***************************************************************************)
(* Properties of Spec: the lines behind a copy statement.                  *)
(***************************************************************************)
\* processStatements is about to dispatch a copy statement: the first copy or
\* insert statement of the batch is a copy statement.
CopyDispatched ==
    /\ pc = "stmts"
    /\ FirstReturning(stmts) # 0
    /\ stmts[FirstReturning(stmts)].kind = "CopyStmt"

\* C37: when a copy statement is dispatched the copy-block decoder is next;
\* while it runs every step takes the next line (or finds the stream at its
\* end), no line goes to the parser, no parse is attempted and no reparse
\* counted, and it hands over only at the end marker or at end-of-stream.
C37_Step ==
    /\ CopyDispatched => pc' = "copy"
    /\ pc = "copy" =>
          /\ pos' = pos + 1 \/ eof'
          /\ buf' = buf
          /\ nFailed' = nFailed
          /\ nParsed' = nParsed
          /\ conv'.Reparsed = conv.Reparsed
          /\ \/ pc' = "copy"
             \/ /\ pc' = "loop"
                /\ \/ eof'
                   \/ input.lines[pos + 1] = <<"M">>

C37_CopyBlockBypassesParser == [][C37_Step]_vars

\* A copy statement with a malformed column list, in the data pass with t in
\* the source schema, and one without relation: a data line behind each was
\* taken by the decoder.
C37_Witness ==
    /\ pc = "copy"
    /\ pos = 2
    /\ input.lines[1] \in { <<"K", ";">>, <<"N", ";">> }
    /\ input.lines[2] = <<"D", "D">>
    /\ ci.stmt = "copyFrom"
    /\ conv.Reparsed = 0

(***************************************************************************)
(* SpecTerm: processPgDump as in Spec, run to its end: a step that can be  *)
(* taken is taken eventually.  The dumps are drawn from the lines below:   *)
(* a statement on two lines ("S" then "T ;"), whose second line alone is   *)
(* no statement, a copy statement with its data and end marker, and an     *)
(* insert statement.  The run is the data pass over a dump whose table is  *)
(* known.                                                                  *)
(***************************************************************************)
TermLines ==
    { <<"S">>, <<"T", ";">>, <<"C", ";">>, <<"D", "D">>, <<"M">>, <<"I", ";">> }

TermResiduals == { <<>>, <<"C", ";">>, <<"D", "D">> }

InitTerm ==
    /\ conv = StartConv("data", TRUE)
    /\ input \in [lines : SeqsUpTo(TermLines, MaxLines), residual : TermResiduals]
    /\ pc = "chunk"
    /\ pos = 0
    /\ eof = FALSE
    /\ buf = <<>>
    /\ stmts = <<>>
    /\ ci = NoCi
    /\ err = FALSE
    /\ nParsed = 0
    /\ nFailed = 0
    /\ SchemaIdle
    /\ EvalIdle

SpecTerm == InitTerm /\ [][Next]_vars /\ WF_vars(Next)

\* Every iteration of the chunk loop and of the copy-block loop takes a line or
\* finds the stream at its end, and neither loop goes round on a reader that
\* was at end-of-stream before the iteration.
C38_Step ==
    /\ pc \in {"chunk", "copy"} => (pos' = pos + 1 \/ eof')
    /\ (pc \in {"chunk", "copy"} /\ eof) => pc' \notin {"chunk", "copy"}
    /\ pc = "done" => pc' = "done"

\* C38: on every finite input processPgDump terminates: its loops advance as
\* C38_Step says, every run reaches its end, and at the end either the reader
\* is at end-of-stream and nil is returned, or the parse error is.
C38_Terminates ==
    /\ [][C38_Step]_vars
    /\ <>(pc = "done")
    /\ [](pc = "done" => (err \/ eof))
    /\ [](err => pc = "done")

\* A run that ended without error after a copy block that was cut short by the
\* end of the stream.
C38_Witness ==
    /\ pc = "done"
    /\ ~err
    /\ eof
    /\ pos = 3
    /\ input.lines[1] = <<"C", ";">>
    /\ input.residual = <<"D", "D">>
    /\ "Reached eof while parsing copy-block" \in
          {conv.Unexpected[i] : i \in 1..Len(conv.Unexpected)}

(***************************************************************************)
(* Properties of SpecSchema: a create statement that fails in a column.    *)
(***************************************************************************)
ColumnFails(te) ==
    te.elt = "ColumnDef" /\ (te.Colname = "" \/ getTypeID(te.TypeNames).err)

\* The position of the first element of elts that is a failing column, 0 if
\* there is none.
FirstFailing(elts) ==
    IF \E i \in 1..Len(elts) : ColumnFails(elts[i])
    THEN CHOOSE i \in 1..Len(elts) :
            ColumnFails(elts[i]) /\ \A j \in 1..(i - 1) : ~ColumnFails(elts[j])
    ELSE 0

\* The last statement was a create statement that reached the loop over its
\* elements and failed there in a column.
LastFailedInColumn ==
    /\ pc = "schema"
    /\ last.kind = "CreateStmt"
    /\ ~last.Relation.nil
    /\ ~getTableName(last.Relation).err
    /\ last.InhRelations = 0
    /\ FirstFailing(last.TableElts) > 0

\* The diagnostics the elements before the failing column give rise to.
EarlierDiagnostics ==
    createElts(MakeConv, SubSeq(last.TableElts, 1, FirstFailing(last.TableElts) - 1),
               getTableName(last.Relation).name,
               [colNames |-> <<>>, colDef |-> EmptyMap, constraints |-> <<>>]).conv.Unexpected

=============================================================================
